---- MODULE Spec2Model ----
(***************************************************************************)
(* branchGPT: the client conversation store (conversationStore.ts), the    *)
(* chat view's send handler (ChatView.tsx) and the multi-question          *)
(* detector (branchDetection.ts), as a state machine.                      *)
(*                                                                         *)
(* Identifiers: crypto.randomUUID() yields a fresh non-empty string.  The  *)
(* model hands out the message ids 1, 2, 3, ... (counter nextId) and the   *)
(* conversation ids -1, -2, ... (counter nextConvId): two supplies that    *)
(* never meet, as no two UUIDs do.  NoSuchId is an id no call ever         *)
(* returned.  NULL (0) stands for null / undefined / '' (all falsy in the  *)
(* source).  Maps                                                          *)
(* are functions whose DOMAIN is the key set.  Strings the code inspects   *)
(* (message contents) are sequences of one-character strings.  Timestamps  *)
(* (createdAt, updatedAt) are not modelled.                                *)
(***************************************************************************)
EXTENDS Integers, Sequences, FiniteSets, TLC

\* ---------------------------------------------------------------- bounds
\* Number of message ids generateId hands out to direct addMessage calls
\* (Spec).
MaxMsgs == 2
\* Number of message ids generateId hands out to the send handler (SendSpec):
\* room for a single send and an auto-branch of two questions after it.
MaxSendMsgs == 6
\* Number of conversations direct createConversation calls create (Spec).
MaxConvs == 1
\* Number of conversations the chat view's mount effect creates (SendSpec)
\* and createConversation creates where trees stand side by side (TreesSpec).
MaxSendConvs == 2
\* Longest path handed to setActivePath.
MaxPathLen == 1
\* Farthest the viewport is panned from the origin, along either axis.
MaxPan == 1
\* Most zoom steps taken in a row on the way to overview, or back to chat.
MaxZoomSteps == 8
\* Longest text handed to detectMultipleQuestions on its own.
MaxDraftLen == 4
\* Longest identifier text the segment encoding is tried on.
MaxIdLen == 3
\* Most items a provider delivers on one stream.
MaxStreamLen == 4
\* Most requests under way at a time, where requests overlap.
MaxRequests == 2
\* Most withTransaction calls under way at a time.
MaxCalls == 2
\* Longest text put together from list markers, question marks and
\* connecting words and handed to detectMultipleQuestions.
MaxTextLen == 7
\* Number of message ids generateId hands out where a parent is retried
\* (RetrySpec): a parent, a failed child and its new sibling.
MaxRetryMsgs == 3

NULL == 0

VARIABLES
  conversations,          \* Map<string, ConversationTree>
  activeConversationId,   \* string | null
  nextId,                 \* the next message id generateId returns
  nextConvId,             \* the number of the next conversation id
  timers,                 \* pending setTimeout callbacks, in firing order
  error,                  \* ChatView's error state (its code, or "none")
  view,                   \* the view store: mode, viewport, isInputVisible, selectedNodeId
  draft,                  \* a text handed to detectMultipleQuestions, and the result
  rows,                   \* the messages table: id -> [parent_id, path]
  llm,                    \* LLMManager, its clients and the requests under way
  tx                      \* withTransaction calls: call -> its position, statements and outcome

vars == <<conversations, activeConversationId, nextId, nextConvId, timers, error, view, draft,
          rows, llm, tx>>

\* An id generateId never returned.
NoSuchId == MaxMsgs + MaxSendMsgs + 1

\* ----------------------------------------------------------- map helpers
Has(map, k) == k \in DOMAIN map

MapSet(map, k, v) == [x \in (DOMAIN map) \cup {k} |-> IF x = k THEN v ELSE map[x]]

MapDelete(map, k) == [x \in (DOMAIN map) \ {k} |-> map[x]]

EmptyMap == [x \in {} |-> NULL]

\* { ...a, ...b } on records
Spread(a, b) ==
  [f \in (DOMAIN a) \cup (DOMAIN b) |-> IF f \in DOMAIN b THEN b[f] ELSE a[f]]

IndexOf(seq, x) ==
  IF \E i \in 1..Len(seq) : seq[i] = x
  THEN (CHOOSE i \in 1..Len(seq) : seq[i] = x /\ \A j \in 1..(i - 1) : seq[j] # x) - 1
  ELSE -1

\* ------------------------------------------------------------- the store
\* The store's data, as the operators below take and return it.
Store == [conversations |-> conversations,
          activeConversationId |-> activeConversationId,
          nextId |-> nextId,
          nextConvId |-> nextConvId]

getActiveConversation(st) ==
  IF st.activeConversationId = NULL THEN NULL
  ELSE IF Has(st.conversations, st.activeConversationId)
       THEN st.conversations[st.activeConversationId]
       ELSE NULL

getActivePath(st) ==
  IF st.activeConversationId # NULL /\ Has(st.conversations, st.activeConversationId)
  THEN st.conversations[st.activeConversationId].activePath
  ELSE <<>>

createConversation(st, title) ==
  LET id == 0 - st.nextConvId
      conversation == [id |-> id, title |-> title, rootMessageId |-> NULL]
      tree == [conversation |-> conversation,
               messages |-> EmptyMap,
               nodes |-> EmptyMap,
               activePath |-> <<>>]
  IN [st EXCEPT !.conversations = MapSet(st.conversations, id, tree),
                !.activeConversationId = id,
                !.nextConvId = st.nextConvId + 1]

setActiveConversation(st, id) == [st EXCEPT !.activeConversationId = id]

\* A slip the deletion claim must catch: the active pointer is cleared
\* whichever conversation goes.
deleteConversationAndClear(st, id) ==
  [st EXCEPT !.conversations = MapDelete(st.conversations, id),
             !.activeConversationId = NULL]

deleteConversation(st, id) ==
  [st EXCEPT !.conversations = MapDelete(st.conversations, id),
             !.activeConversationId =
                IF st.activeConversationId = id THEN NULL ELSE st.activeConversationId]

\* Calculate branch index based on siblings
branchIndexOf(tree, parentId) ==
  IF parentId # NULL /\ Has(tree.nodes, parentId)
  THEN Len(tree.nodes[parentId].children)
  ELSE 0

\* depth: messageData.parentId ? (tree.nodes.get(parentId)?.depth ?? 0) + 1 : 0
depthOf(tree, parentId) ==
  IF parentId # NULL
  THEN (IF Has(tree.nodes, parentId) THEN tree.nodes[parentId].depth ELSE 0) + 1
  ELSE 0

\* Update parent's children list
linkChild(nodes, parentId, id) ==
  IF parentId # NULL /\ Has(nodes, parentId)
  THEN MapSet(nodes, parentId, [nodes[parentId] EXCEPT !.children = Append(@, id)])
  ELSE nodes

\* A slip the root claims must catch: the root is taken by every insertion.
rootUpdateAlways(conversation, id) == [conversation EXCEPT !.rootMessageId = id]

\* Update root message if this is the first message
rootUpdate(conversation, id) ==
  IF conversation.rootMessageId # NULL
  THEN conversation
  ELSE [conversation EXCEPT !.rootMessageId = id]

\* A slip the active-path claims must catch: the new id is put in front.
extendPathInFront(activePath, id) == <<id>> \o activePath

\* activePath: [...currentTree.activePath, id]
extendPath(activePath, id) == Append(activePath, id)

\* addMessage past its two checks: the id is generated, the message and its
\* node are built and the tree is replaced.
insertMessage(st, messageData) ==
    LET tree == st.conversations[st.activeConversationId]
        id == st.nextId
        parentId == messageData.parentId
        message == Spread(messageData,
                          [id |-> id, branchIndex |-> branchIndexOf(tree, parentId)])
        node == [id |-> id,
                 messageId |-> id,
                 parentId |-> parentId,
                 children |-> <<>>,
                 depth |-> depthOf(tree, parentId),
                 isActive |-> TRUE]
        newTree == [conversation |-> rootUpdate(tree.conversation, id),
                    messages |-> MapSet(tree.messages, id, message),
                    nodes |-> linkChild(MapSet(tree.nodes, id, node), parentId, id),
                    activePath |-> extendPath(tree.activePath, id)]
    IN [st |-> [st EXCEPT !.conversations = MapSet(@, st.activeConversationId, newTree),
                          !.nextId = id + 1],
        id |-> id,
        err |-> "none"]

\* A slip the no-active-conversation claim must catch: the first check is
\* left out, and the lookup of the missing id answers instead.
addMessageUnchecked(st, messageData) ==
  IF ~Has(st.conversations, st.activeConversationId)
  THEN [st |-> st, id |-> NULL, err |-> "Conversation not found"]
  ELSE insertMessage(st, messageData)

\* addMessage: the new store, the id it returns and the error it throws
\* ("none" when it returns normally).
addMessage(st, messageData) ==
  IF st.activeConversationId = NULL
  THEN [st |-> st, id |-> NULL, err |-> "No active conversation"]
  ELSE IF ~Has(st.conversations, st.activeConversationId)
  THEN [st |-> st, id |-> NULL, err |-> "Conversation not found"]
  ELSE insertMessage(st, messageData)

\* A slip the cross-tree claim must catch: the message is looked up in every
\* tree of the store, not in the active one.
updateMessageAnywhere(st, id, updates) ==
  [st EXCEPT !.conversations =
     [c \in DOMAIN st.conversations |->
        IF Has(st.conversations[c].messages, id)
        THEN [st.conversations[c] EXCEPT
                !.messages = MapSet(@, id, Spread(@[id], updates))]
        ELSE st.conversations[c]]]

updateMessage(st, id, updates) ==
  IF st.activeConversationId = NULL THEN st
  ELSE IF ~Has(st.conversations, st.activeConversationId) THEN st
  ELSE
    LET tree == st.conversations[st.activeConversationId]
    IN IF ~Has(tree.messages, id) THEN st
       ELSE [st EXCEPT !.conversations[st.activeConversationId].messages =
                          MapSet(tree.messages, id, Spread(tree.messages[id], updates))]

\* The error updateMessage throws, "none" when it returns: it holds no
\* throw, and each of its three early exits (no active id, no tree, no
\* message) is a return.
updateMessageError(st, id, updates) == "none"

\* A slip the retry claim must catch: the parent is appended to the path
\* whether or not it is on it already.
createBranchAppending(st, parentId) ==
  IF st.activeConversationId = NULL
  THEN [st |-> st, err |-> "No active conversation"]
  ELSE IF ~Has(st.conversations, st.activeConversationId)
  THEN [st |-> st, err |-> "Conversation not found"]
  ELSE IF ~Has(st.conversations[st.activeConversationId].nodes, parentId)
  THEN [st |-> st, err |-> "Parent node not found"]
  ELSE [st |-> [st EXCEPT !.conversations[st.activeConversationId].activePath =
                             Append(@, parentId)],
        err |-> "none"]

\* createBranch: the new store and the error it throws ("none" when it
\* returns).  The branch id it generates and returns is stored nowhere.
createBranch(st, parentId) ==
  IF st.activeConversationId = NULL
  THEN [st |-> st, err |-> "No active conversation"]
  ELSE IF ~Has(st.conversations, st.activeConversationId)
  THEN [st |-> st, err |-> "Conversation not found"]
  ELSE
    LET tree == st.conversations[st.activeConversationId]
        parentIndex == IndexOf(tree.activePath, parentId)
        newActivePath ==
          IF parentIndex >= 0
          THEN SubSeq(tree.activePath, 1, parentIndex + 1)
          ELSE Append(tree.activePath, parentId)
    IN IF ~Has(tree.nodes, parentId)
       THEN [st |-> st, err |-> "Parent node not found"]
       ELSE [st |-> [st EXCEPT !.conversations[st.activeConversationId].activePath =
                                  newActivePath],
             err |-> "none"]

\* A slip the isActive claims must catch: the path is replaced and the
\* flags are left as they were.
setActivePathKeepFlags(st, path) ==
  IF st.activeConversationId = NULL THEN st
  ELSE IF ~Has(st.conversations, st.activeConversationId) THEN st
  ELSE [st EXCEPT !.conversations[st.activeConversationId].activePath = path]

setActivePath(st, path) ==
  IF st.activeConversationId = NULL THEN st
  ELSE IF ~Has(st.conversations, st.activeConversationId) THEN st
  ELSE
    LET tree == st.conversations[st.activeConversationId]
        InPath(nodeId) == \E i \in 1..Len(path) : path[i] = nodeId
        \* Deactivate all nodes, then activate nodes in the path
        newNodes == [nodeId \in DOMAIN tree.nodes |->
                       [tree.nodes[nodeId] EXCEPT !.isActive = InPath(nodeId)]]
    IN [st EXCEPT !.conversations[st.activeConversationId] =
                     [tree EXCEPT !.nodes = newNodes, !.activePath = path]]

\* ------------------------------------------------- branchDetection.ts
\* A string is a sequence of one-character strings; offsets are 0-based as
\* in the source, so the character at offset p of s is s[p + 1].
IsWs(c) == c \in {" ", "\n", "\t", "\r"}

IsDigit(c) == c \in {"0", "1", "2", "3", "4", "5", "6", "7", "8", "9"}

\* [-\u2022*]: a character outside ASCII is written by its code point.
IsBullet(c) == c \in {"-", "u2022", "*"}

IsLineTerminator(c) == c \in {"\n", "\r"}

Min(a, b) == IF a < b THEN a ELSE b

\* String.prototype.trim
trim(s) ==
  LET keep == {i \in 1..Len(s) : ~IsWs(s[i])}
  IN IF keep = {} THEN <<>>
     ELSE SubSeq(s, CHOOSE i \in keep : \A j \in keep : i <= j,
                    CHOOSE i \in keep : \A j \in keep : j <= i)

\* Length of the longest run of whitespace (\s*) / digits (\d+) from offset p.
WsRun(s, p) ==
  Cardinality({k \in (p + 1)..Len(s) : \A j \in (p + 1)..k : IsWs(s[j])})

DigitRun(s, p) ==
  Cardinality({k \in (p + 1)..Len(s) : \A j \in (p + 1)..k : IsDigit(s[j])})

\* The list marker (?:\d+[.)]\s*|[-\u2022*]\s+) at offset p, followed by the lazy
\* group (.+?): the offset where the group starts, -1 if there is no match.
\* The greedy \s* and \s+ give back whitespace until one character is left
\* for the group.
GroupAfterWs(s, a) == a + Min(WsRun(s, a), Len(s) - 1 - a)

CaptureAfter(s, p, d) ==
  IF d >= 1 /\ p + d < Len(s) /\ s[p + d + 1] \in {".", ")"} /\ p + d + 1 < Len(s)
  THEN GroupAfterWs(s, p + d + 1)
  ELSE IF p < Len(s) /\ IsBullet(s[p + 1]) /\ GroupAfterWs(s, p + 1) >= p + 2
  THEN GroupAfterWs(s, p + 1)
  ELSE -1

CaptureStart(s, p) == CaptureAfter(s, p, DigitRun(s, p))

\* The marker alone, as the lookahead uses it.
MarkerAt(s, p) ==
  LET d == DigitRun(s, p)
  IN \/ d >= 1 /\ p + d < Len(s) /\ s[p + d + 1] \in {".", ")"}
     \/ p < Len(s) /\ IsBullet(s[p + 1]) /\ WsRun(s, p + 1) >= 1

\* (?=(?:\n\s*(?:\d+[.)]\s*|[-\u2022*]\s+))|$) at offset e
ListLookahead(s, e) ==
  \/ e = Len(s)
  \/ e < Len(s) /\ s[e + 1] = "\n" /\ MarkerAt(s, e + 1 + WsRun(s, e + 1))

\* numberedListPattern tried at offset i: (?:^|\n)\s* and the marker; the
\* offset where group 1 starts, -1 if the pattern does not match at i.
FirstAlternative(viaStart, viaNewline) ==
  IF viaStart >= 0 THEN viaStart ELSE viaNewline

ListMatchAt(s, i) ==
  FirstAlternative(IF i = 0 THEN CaptureStart(s, WsRun(s, 0)) ELSE -1,
                   IF i < Len(s) /\ s[i + 1] = "\n"
                   THEN CaptureStart(s, i + 1 + WsRun(s, i + 1))
                   ELSE -1)

\* [...content.matchAll(numberedListPattern)] from lastIndex pos: group 1 of
\* each match, in order.
RECURSIVE numberedMatches(_, _)
numberedMatches(s, pos) ==
  LET starts == {i \in pos..(Len(s) - 1) : ListMatchAt(s, i) >= 0}
  IN IF starts = {} THEN <<>>
     ELSE LET i == CHOOSE x \in starts : \A y \in starts : x <= y
              c == ListMatchAt(s, i)
              e == CHOOSE x \in (c + 1)..Len(s) :
                     /\ ListLookahead(s, x)
                     /\ \A y \in (c + 1)..(x - 1) : ~ListLookahead(s, y)
          IN <<SubSeq(s, c + 1, e)>> \o numberedMatches(s, e)

\* [...content.matchAll(/([^?]+\?)/g)] from lastIndex pos.
RECURSIVE questionMatches(_, _)
questionMatches(s, pos) ==
  LET starts == {i \in pos..(Len(s) - 1) :
                   s[i + 1] # "?" /\ \E j \in (i + 2)..Len(s) : s[j] = "?"}
  IN IF starts = {} THEN <<>>
     ELSE LET i == CHOOSE x \in starts : \A y \in starts : x <= y
              j == CHOOSE x \in (i + 2)..Len(s) :
                     s[x] = "?" /\ \A y \in (i + 2)..(x - 1) : s[y] # "?"
          IN <<SubSeq(s, i + 1, j)>> \o questionMatches(s, j)

\* The alternatives of connectingWordsPattern, in the pattern's order.
ConnectingWords ==
  << <<"u53E6", "u5916">>, <<"u8FD8", "u6709">>, <<"u8FD8", "u60F3">>,
     <<"a", "n", "d", " ", "a", "l", "s", "o">>,
     <<"a", "d", "d", "i", "t", "i", "o", "n", "a", "l", "l", "y">>,
     <<"f", "u", "r", "t", "h", "e", "r", "m", "o", "r", "e">>,
     <<"m", "o", "r", "e", "o", "v", "e", "r">>,
     <<"b", "e", "s", "i", "d", "e", "s">>,
     <<"p", "l", "u", "s">>,
     <<"a", "l", "s", "o", ",">> >>

UpperCase == <<"A", "B", "C", "D", "E", "F", "G", "H", "I", "J", "K", "L", "M",
               "N", "O", "P", "Q", "R", "S", "T", "U", "V", "W", "X", "Y", "Z">>

LowerCase == <<"a", "b", "c", "d", "e", "f", "g", "h", "i", "j", "k", "l", "m",
               "n", "o", "p", "q", "r", "s", "t", "u", "v", "w", "x", "y", "z">>

\* The i flag: characters compare by their case-folded form.
Fold(c) ==
  IF \E k \in 1..Len(UpperCase) : UpperCase[k] = c
  THEN LowerCase[CHOOSE k \in 1..Len(UpperCase) : UpperCase[k] = c]
  ELSE c

\* Length of the first connecting word matching at offset p, 0 if none.
ConnectiveAt(s, p) ==
  LET fits(w) == /\ p + Len(w) <= Len(s)
                 /\ \A k \in 1..Len(w) : Fold(s[p + k]) = w[k]
      hits == {n \in 1..Len(ConnectingWords) : fits(ConnectingWords[n])}
  IN IF hits = {} THEN 0
     ELSE Len(ConnectingWords[CHOOSE n \in hits : \A m \in hits : n <= m])

\* connectingWordsPattern tried at offset i: (.+?) takes the fewest
\* characters (none a line terminator) that a connecting word follows; the
\* offset of that word, -1 if the pattern does not match at i.
ConnectiveMatchAt(s, i) ==
  LET ends == {j \in (i + 1)..(Len(s) - 1) :
                 /\ ConnectiveAt(s, j) > 0
                 /\ \A k \in (i + 1)..j : ~IsLineTerminator(s[k])}
  IN IF ends = {} THEN -1 ELSE CHOOSE j \in ends : \A k \in ends : j <= k

\* [...content.matchAll(connectingWordsPattern)] from lastIndex pos: each
\* match as [index, group1, length of match[0]].
RECURSIVE connectingMatches(_, _)
connectingMatches(s, pos) ==
  LET starts == {i \in pos..(Len(s) - 1) : ConnectiveMatchAt(s, i) >= 0}
  IN IF starts = {} THEN <<>>
     ELSE LET i == CHOOSE x \in starts : \A y \in starts : x <= y
              j == ConnectiveMatchAt(s, i)
              len == (j - i) + ConnectiveAt(s, j)
          IN <<[index |-> i, group1 |-> SubSeq(s, i + 1, j), length |-> len]>>
             \o connectingMatches(s, i + len)

RECURSIVE TrimAll(_)
TrimAll(groups) ==
  IF groups = <<>> THEN <<>> ELSE <<trim(Head(groups))>> \o TrimAll(Tail(groups))

\* Strategy 1: numbered lists.  confidence is kept in tenths (7 for 0.7): the
\* source's sums of 0.1 differ from the tenth by a floating-point ulp, which
\* no comparison it makes can see.
strategy1(numbered) ==
  IF Len(numbered) >= 2
  THEN [questions |-> TrimAll(numbered), confidence |-> Min(9, 5 + Len(numbered))]
  ELSE [questions |-> <<>>, confidence |-> 0]

\* Strategy 2: multiple question marks (if no numbered list found)
strategy2(found, marks) ==
  IF found.questions = <<>> /\ Len(marks) >= 2
  THEN [questions |-> TrimAll(marks), confidence |-> Min(8, 4 + Len(marks))]
  ELSE found

\* The rest of the content after the last match, pushed if not empty.
restContent(content, lastMatch) ==
  trim(SubSeq(content, lastMatch.index + lastMatch.length + 1, Len(content)))

pushIfTruthy(rest) == IF rest # <<>> THEN <<rest>> ELSE <<>>

\* A slip the threshold claim must catch: the connective strategy reports
\* a confidence below the threshold of shouldAutoBranch.
strategy3LowConfidence(found, content, conn) ==
  IF found.questions = <<>> /\ Len(conn) >= 1
  THEN [questions |-> <<trim(conn[1].group1)>>
                      \o pushIfTruthy(restContent(content, conn[Len(conn)])),
        confidence |-> 4]
  ELSE found

\* Strategy 3: connecting words (if no other patterns found)
strategy3(found, content, conn) ==
  IF found.questions = <<>> /\ Len(conn) >= 1
  THEN [questions |-> <<trim(conn[1].group1)>>
                      \o pushIfTruthy(restContent(content, conn[Len(conn)])),
        confidence |-> 6]
  ELSE found

detectionResult(found) ==
  [hasMultipleQuestions |-> Len(found.questions) >= 2,
   questions |-> found.questions,
   confidence |-> found.confidence]

detectMultipleQuestions(content) ==
  detectionResult(
    strategy3(strategy2(strategy1(numberedMatches(content, 0)),
                        questionMatches(content, 0)),
              content,
              connectingMatches(content, 0)))

shouldAutoBranch(result) == result.hasMultipleQuestions /\ result.confidence >= 5

\* A text with what detectMultipleQuestions returns for it.
Detected(content) == [content |-> content, detection |-> detectMultipleQuestions(content)]

\* ------------------------------------------------------- ChatView.tsx
\* Contents typed into the input: one statement, blank, two questions.
Contents == { <<"h", "i">>, <<" ">>, <<"a", "?", "b", "?">> }

\* detectMultipleQuestions on the contents typed, computed once.
DetectionOf == [content \in Contents |-> detectMultipleQuestions(content)]

\* The text of the simulated response, abbreviated.
PlaceholderResponse == <<"o", "k">>

\* A slip the auto-branch claims must catch: each question is hung under the
\* placeholder of the question before it, as consecutive single sends would.
RECURSIVE branchLoopChained(_, _, _)
branchLoopChained(st, questions, parentId) ==
  IF questions = <<>> THEN [st |-> st, err |-> "none"]
  ELSE
    LET user == addMessage(st, [conversationId |-> st.activeConversationId,
                                parentId |-> parentId,
                                role |-> "user",
                                content |-> Head(questions),
                                status |-> "completed"])
        assistant == addMessage(user.st, [conversationId |-> st.activeConversationId,
                                          parentId |-> user.id,
                                          role |-> "assistant",
                                          content |-> <<>>,
                                          status |-> "pending"])
    IN IF user.err # "none" THEN [st |-> user.st, err |-> user.err]
       ELSE IF assistant.err # "none" THEN [st |-> assistant.st, err |-> assistant.err]
       ELSE branchLoopChained(assistant.st, Tail(questions), assistant.id)

\* A slip the turn claim must catch: the placeholder is hung next to its
\* question, under the same parent.
RECURSIVE branchLoopFlat(_, _, _)
branchLoopFlat(st, questions, parentId) ==
  IF questions = <<>> THEN [st |-> st, err |-> "none"]
  ELSE
    LET user == addMessage(st, [conversationId |-> st.activeConversationId,
                                parentId |-> parentId,
                                role |-> "user",
                                content |-> Head(questions),
                                status |-> "completed"])
        assistant == addMessage(user.st, [conversationId |-> st.activeConversationId,
                                          parentId |-> parentId,
                                          role |-> "assistant",
                                          content |-> <<>>,
                                          status |-> "pending"])
    IN IF user.err # "none" THEN [st |-> user.st, err |-> user.err]
       ELSE IF assistant.err # "none" THEN [st |-> assistant.st, err |-> assistant.err]
       ELSE branchLoopFlat(assistant.st, Tail(questions), parentId)

\* The auto-branch loop over detection.questions: the store after it and
\* the error that ended it ("none" if it ran to its end).
RECURSIVE branchLoop(_, _, _)
branchLoop(st, questions, parentId) ==
  IF questions = <<>> THEN [st |-> st, err |-> "none"]
  ELSE
    LET user == addMessage(st, [conversationId |-> st.activeConversationId,
                                parentId |-> parentId,
                                role |-> "user",
                                content |-> Head(questions),
                                status |-> "completed"])
        assistant == addMessage(user.st, [conversationId |-> st.activeConversationId,
                                          parentId |-> user.id,
                                          role |-> "assistant",
                                          content |-> <<>>,
                                          status |-> "pending"])
    IN IF user.err # "none" THEN [st |-> user.st, err |-> user.err]
       ELSE IF assistant.err # "none" THEN [st |-> assistant.st, err |-> assistant.err]
       ELSE branchLoop(assistant.st, Tail(questions), parentId)

\* The catch block's choice of error code.
errorCode(message) ==
  IF message = "No active conversation" THEN "NO_ACTIVE_CONVERSATION"
  ELSE IF message = "Conversation not found" THEN "CONVERSATION_NOT_FOUND"
  ELSE "SEND_MESSAGE_ERROR"

\* handleSendMessage(content), which runs to its end without yielding: the
\* store after it, the callbacks it hands to setTimeout and the error state.
handleSendMessage(st, err, content) ==
  IF trim(content) = <<>> THEN [st |-> st, scheduled |-> <<>>, error |-> err]
  ELSE
    LET detection == DetectionOf[content]
        shouldBranch == shouldAutoBranch(detection)
        activePath == getActivePath(st)
        parentId == IF Len(activePath) > 0 THEN activePath[Len(activePath)] ELSE NULL
        loop == branchLoop(st, detection.questions, parentId)
        user == addMessage(st, [conversationId |-> st.activeConversationId,
                                parentId |-> parentId,
                                role |-> "user",
                                content |-> content,
                                status |-> "completed"])
        assistant == addMessage(user.st, [conversationId |-> st.activeConversationId,
                                          parentId |-> user.id,
                                          role |-> "assistant",
                                          content |-> <<>>,
                                          status |-> "pending"])
    IN IF shouldBranch /\ Len(detection.questions) > 1
       THEN [st |-> loop.st, scheduled |-> <<>>,
             error |-> IF loop.err = "none" THEN "none" ELSE errorCode(loop.err)]
       ELSE IF user.err # "none"
       THEN [st |-> user.st, scheduled |-> <<>>, error |-> errorCode(user.err)]
       ELSE IF assistant.err # "none"
       THEN [st |-> assistant.st, scheduled |-> <<>>, error |-> errorCode(assistant.err)]
       ELSE [st |-> assistant.st, scheduled |-> <<assistant.id>>, error |-> "none"]

\* The setTimeout callback of the single message flow.
timerCallback(st, assistantMessageId) ==
  updateMessage(st, assistantMessageId,
                [content |-> PlaceholderResponse, status |-> "completed"])

\* -------------------------------------------------------------- inputs
\* What a caller can pass for an id: an id of the kind asked for, or an id
\* that names nothing.  (An id of another kind, or of another tree, names
\* nothing either: every lookup is a Map.get on one map.)
ConversationIds == (DOMAIN conversations) \cup {NoSuchId}

ActiveNodeIds ==
  IF activeConversationId # NULL /\ Has(conversations, activeConversationId)
  THEN DOMAIN conversations[activeConversationId].nodes
  ELSE {}

MessageIds == (1..(nextId - 1)) \cup {NoSuchId}

\* A title is a string; NoTitle stands for the null title.
NoTitle == "<null>"

Titles == {"New Chat"}

MessageDatas ==
  [conversationId : {activeConversationId},
   parentId : {NULL, NoSuchId} \cup ActiveNodeIds,
   role : {"user"},
   content : {<<"x">>},
   status : {"completed"}]

Updates == { [status |-> "completed"] }

\* updates is a Partial<Message>: any subset of a message's fields, those of
\* the tree linkage included.
Patches == Updates \cup { [parentId |-> NULL] }

Paths == UNION {[1..n -> ActiveNodeIds \cup {NoSuchId}] : n \in 0..MaxPathLen}

\* Message data that names any conversation of the store, the active one or
\* another, as its conversationId.
TreeMessageDatas ==
  [conversationId : DOMAIN conversations,
   parentId : {NULL} \cup ActiveNodeIds,
   role : {"user"},
   content : {<<"x">>},
   status : {"completed"}]

\* Message data for replies that completed or failed, under any node of
\* the active tree.
RetryDatas ==
  [conversationId : {activeConversationId},
   parentId : {NULL} \cup ActiveNodeIds,
   role : {"assistant"},
   content : {<<"x">>},
   status : {"completed", "error"}]

\* The paths the chat view's sends are tried from: none, or one node of the
\* active tree, so that every node is in turn the last of activePath.
SendPaths == {<<>>} \cup { <<id>> : id \in ActiveNodeIds }

\* How many ids handleSendMessage(content) draws.
IdsNeeded(content) ==
  LET detection == DetectionOf[content]
  IN IF shouldAutoBranch(detection) /\ Len(detection.questions) > 1
     THEN 2 * Len(detection.questions) ELSE 2

\* ------------------------------------------------- database functions
\* A UUID's text is a sequence of one-character strings over hex digits and
\* hyphens; an ltree is a sequence of labels, each a text. SQL NULL for a
\* UUID is NoUuid.
NoUuid == <<>>

\* REPLACE(text, from, to), for one-character from and to.
RECURSIVE REPLACE(_, _, _)
REPLACE(text, from, to) ==
  IF text = <<>> THEN <<>>
  ELSE <<IF Head(text) = from THEN to ELSE Head(text)>> \o REPLACE(Tail(text), from, to)

\* text::LTREE: the labels between the dots.
RECURSIVE ToLtree(_, _)
ToLtree(text, label) ==
  IF text = <<>> THEN <<label>>
  ELSE IF Head(text) = "." THEN <<label>> \o ToLtree(Tail(text), <<>>)
  ELSE ToLtree(Tail(text), Append(label, Head(text)))

\* A slip the round-trip claim must catch: hyphens are dropped, not
\* replaced.
encodeSegmentDroppingHyphens(id) == SelectSeq(id, LAMBDA c : c # "-")

\* REPLACE(p_message_id::TEXT, '-', '_')
encodeSegment(id) == REPLACE(id, "-", "_")

\* A slip the ancestry claim must catch: every message gets the path of a
\* root.
generate_root_path(table, p_parent_id, p_message_id) ==
  [raised |-> FALSE, path |-> ToLtree(encodeSegment(p_message_id), <<>>)]

\* generate_message_path over the messages table; raised stands for RAISE
\* EXCEPTION 'Parent message not found'.
generate_message_path(table, p_parent_id, p_message_id) ==
  IF p_parent_id = NoUuid
  THEN [raised |-> FALSE, path |-> ToLtree(encodeSegment(p_message_id), <<>>)]
  ELSE IF ~Has(table, p_parent_id)
  THEN [raised |-> TRUE, path |-> <<>>]
  ELSE [raised |-> FALSE,
        path |-> table[p_parent_id].path \o ToLtree(encodeSegment(p_message_id), <<>>)]

\* a <@ b on ltrees: a is b or a descendant of b.
IsDescendantOrEqual(a, b) == Len(b) <= Len(a) /\ SubSeq(a, 1, Len(b)) = b

\* The ids get_message_descendants(p_message_id) returns.
get_message_descendants(table, p_message_id) ==
  IF ~Has(table, p_message_id) THEN {}
  ELSE {id \in DOMAIN table :
          IsDescendantOrEqual(table[id].path, table[p_message_id].path) /\ id # p_message_id}

\* The ids get_message_ancestors(p_message_id) returns; ORDER BY
\* nlevel(m.path) puts them in the order of the lengths of their paths.
get_message_ancestors(table, p_message_id) ==
  IF ~Has(table, p_message_id) THEN {}
  ELSE {id \in DOMAIN table :
          \/ IsDescendantOrEqual(table[p_message_id].path, table[id].path)
          \/ IsDescendantOrEqual(table[id].path, table[p_message_id].path)}

\* parent_id ... REFERENCES messages(id) ON DELETE CASCADE: the rows that go
\* with the rows in gone.
RECURSIVE Cascade(_, _)
Cascade(table, gone) ==
  IF \E id \in (DOMAIN table) \ gone : table[id].parent_id \in gone
  THEN Cascade(table, gone \cup {id \in DOMAIN table : table[id].parent_id \in gone})
  ELSE gone

\* ------------------------------------------------------- withTransaction
\* An error is known by the step that failed and by whether it is a
\* DatabaseError; NoError stands for no error.
NoError == [origin |-> "none", isDatabaseError |-> FALSE]

\* An error thrown by pg, or by fn: not a DatabaseError unless fn threw one.
Failure(origin, isDatabaseError) == [origin |-> origin, isDatabaseError |-> isDatabaseError]

\* parseDatabaseError(error): a DatabaseError around the error.
parseDatabaseError(err) == [origin |-> err.origin, isDatabaseError |-> TRUE]

\* The file declares withTransaction twice: declaration 1 awaits ROLLBACK
\* and rethrows bare, declaration 2 guards ROLLBACK and rethrows a
\* DatabaseError.
TxDeclarations == {1, 2}

\* A call at its first statement, pool.connect().
newCall(declaration) ==
  [declaration |-> declaration, pc |-> "connect", acquired |-> FALSE, log |-> <<>>,
   released |-> 0, caught |-> NoError, thrown |-> NoError, outcome |-> "pending"]

\* pool.connect(): declaration 1 lets its failure through, declaration 2
\* wraps it; either way no client was acquired and the call rejects.
connect(call, ok) ==
  IF ok THEN [call EXCEPT !.pc = "BEGIN", !.acquired = TRUE]
  ELSE [call EXCEPT !.pc = "done", !.outcome = "rejected",
                    !.thrown = IF call.declaration = 1 THEN Failure("connect", FALSE)
                               ELSE parseDatabaseError(Failure("connect", FALSE))]

\* A step inside try: client.query('BEGIN'), fn(client) or
\* client.query('COMMIT'); a failure is caught.
tryStep(call, step, next, ok, isDatabaseError) ==
  IF ok THEN [call EXCEPT !.pc = next, !.log = Append(@, [step |-> step, ok |-> TRUE])]
  ELSE [call EXCEPT !.pc = "ROLLBACK", !.log = Append(@, [step |-> step, ok |-> FALSE]),
                    !.caught = Failure(step, isDatabaseError)]

\* The catch block: client.query('ROLLBACK'), then the throw. Declaration 1
\* awaits ROLLBACK bare, so its failure replaces the caught error;
\* declaration 2 logs it and throws the caught error, wrapped unless it is a
\* DatabaseError already.
catch(call, ok) ==
  [call EXCEPT !.pc = "release",
               !.log = Append(@, [step |-> "ROLLBACK", ok |-> ok]),
               !.thrown = IF call.declaration = 1
                          THEN IF ok THEN call.caught ELSE Failure("ROLLBACK", FALSE)
                          ELSE IF call.caught.isDatabaseError THEN call.caught
                          ELSE parseDatabaseError(call.caught)]

\* The finally block, client.release(), and then the return or the throw.
finally(call) ==
  [call EXCEPT !.pc = "done", !.released = @ + 1,
               !.outcome = IF call.thrown = NoError THEN "returned" ELSE "rejected"]

\* ------------------------------------------------------------ LLM clients
\* What a provider delivers on a stream is a sequence of items:
\*   "delta"  a piece of content that is not the last (OpenAI: a chunk with
\*            finish_reason null; Anthropic: a text delta; Ollama: a line
\*            with done false)
\*   "stop"   the closing item (a chunk with a finish_reason; message_stop;
\*            a line with done true)
\*   "other"  anything else (a chunk without choices; another event type;
\*            a line that is not a valid response)
\*   "eor"    Ollama only: the end of the bytes one reader.read() returns
Providers == {"openai", "anthropic", "ollama"}

NoClient == "none"

\* const maxInvalidLines = 10
maxInvalidLines == 10

\* new LLMManager(): three clients, none active, no AbortController yet.
InitialManager ==
  [activeClient |-> NoClient,
   abortController |-> [provider \in Providers |-> NULL],
   requests |-> EmptyMap]

\* A request as it starts. OllamaClient.ts declares class OllamaClient
\* twice; declaration says which of the two the request runs.
newRequest(provider, declaration, kind, data) ==
  [provider |-> provider,
   declaration |-> declaration,
   kind |-> kind,
   data |-> data,
   emitted |-> <<>>,
   status |-> "running",
   invalidLineCount |-> 0]

\* yield { content, done, model }: the chunk is recorded by its done flag.
yield(req, done, rest) == [req EXCEPT !.emitted = Append(@, done), !.data = rest]

return(req) == [req EXCEPT !.status = "returned"]

\* What is left of the data once the lines of the current read are dropped.
RECURSIVE AfterRead(_)
AfterRead(data) ==
  IF data = <<>> THEN <<>>
  ELSE IF Head(data) = "eor" THEN Tail(data)
  ELSE AfterRead(Tail(data))

\* OpenAIClient.stream's loop body: yield, then if (done) break.
openaiYield(req, done, rest) ==
  IF done THEN return(yield(req, done, rest)) ELSE yield(req, done, rest)

\* The body of OllamaClient.stream's for loop on a valid line with done true:
\* the first declaration breaks out of the for loop and goes on reading, the
\* second returns.
ollamaStop(req, rest) ==
  IF req.declaration = 1
  THEN yield(req, TRUE, AfterRead(rest))
  ELSE return(yield(req, TRUE, rest))

\* An invalid line: the first declaration skips it, the second counts it and
\* throws at maxInvalidLines.
ollamaInvalid(req, rest) ==
  IF req.declaration = 1
  THEN [req EXCEPT !.data = rest]
  ELSE IF req.invalidLineCount + 1 >= maxInvalidLines
  THEN [req EXCEPT !.data = rest, !.invalidLineCount = @ + 1, !.status = "thrown"]
  ELSE [req EXCEPT !.data = rest, !.invalidLineCount = @ + 1]

\* One next() on the generator a client's stream() returned: the generator
\* runs to its next yield, to its end, or to a throw.
RECURSIVE resume(_)
resume(req) ==
  IF req.status # "running" THEN req
  ELSE IF req.data = <<>> THEN return(req)
  ELSE IF req.provider = "openai"
  THEN openaiYield(req, Head(req.data) # "delta", Tail(req.data))
  ELSE IF req.provider = "anthropic"
  THEN IF Head(req.data) = "delta" THEN yield(req, FALSE, Tail(req.data))
       ELSE IF Head(req.data) = "stop" THEN return(yield(req, TRUE, Tail(req.data)))
       ELSE resume([req EXCEPT !.data = Tail(@)])
  ELSE IF Head(req.data) = "delta" THEN yield(req, FALSE, Tail(req.data))
  ELSE IF Head(req.data) = "stop" THEN ollamaStop(req, Tail(req.data))
  ELSE IF Head(req.data) = "eor" THEN resume([req EXCEPT !.data = Tail(@)])
  ELSE resume(ollamaInvalid(req, Tail(req.data)))

\* LLMManager.complete / stream up to the client's fetch: the manager notes
\* the client as the active one, the client a new AbortController as its
\* own; id names the request and its controller.
startRequest(l, id, req) ==
  [l EXCEPT !.activeClient = req.provider,
            !.abortController[req.provider] = id,
            !.requests = MapSet(@, id, req)]

\* abortController.abort(): the fetch or read that holds the signal rejects.
signalAbort(requests, id) ==
  IF Has(requests, id) /\ requests[id].status = "running"
  THEN [requests EXCEPT ![id].status = "aborted"]
  ELSE requests

\* A client's abort()
clientAbort(l, provider) ==
  IF l.abortController[provider] = NULL THEN l
  ELSE [l EXCEPT !.requests = signalAbort(@, l.abortController[provider]),
                 !.abortController[provider] = NULL]

\* LLMManager.abort()
managerAbort(l) ==
  IF l.activeClient = NoClient THEN l
  ELSE [clientAbort(l, l.activeClient) EXCEPT !.activeClient = NoClient]

\* ------------------------------------------------------------ view store
\* viewport.zoom is a JavaScript number, an IEEE-754 double. The zooms the
\* store computes are whole multiples of 2^-56 below 4, so a double is held
\* as that multiple, split in two limbs: hi * 2^28 + lo.
Limb == 2^28

Double(hi, lo) == [hi |-> hi, lo |-> lo]

\* a < b on doubles.
Less(a, b) == a.hi < b.hi \/ (a.hi = b.hi /\ a.lo < b.lo)

\* Math.min and Math.max.
MathMin(a, b) == IF Less(b, a) THEN b ELSE a

MathMax(a, b) == IF Less(a, b) THEN b ELSE a

\* The spacing of doubles around the multiple hi * 2^28 + lo: a double has
\* 53 significant bits, so multiples from 2^53 on are 2 apart, from 2^54 on
\* 4 apart, and so on.
Ulp(hi) ==
  IF hi < 2^25 THEN 1
  ELSE IF hi < 2^26 THEN 2
  ELSE IF hi < 2^27 THEN 4
  ELSE IF hi < 2^28 THEN 8
  ELSE IF hi < 2^29 THEN 16
  ELSE 32

\* The low limb in units of u, rounded to nearest, ties to even.
RoundedQuotient(lo, u) ==
  IF 2 * (lo % u) > u \/ (2 * (lo % u) = u /\ (lo \div u) % 2 = 1)
  THEN (lo \div u) + 1
  ELSE lo \div u

Carry(hi, lo) == IF lo >= Limb THEN Double(hi + 1, lo - Limb) ELSE Double(hi, lo)

\* The double nearest to the exact multiple hi * 2^28 + lo.
Round(hi, lo) == Carry(hi, RoundedQuotient(lo, Ulp(hi)) * Ulp(hi))

RoundDouble(d) == Round(d.hi, d.lo)

\* a + b in double arithmetic.
DoubleAdd(a, b) == RoundDouble(Carry(a.hi + b.hi, a.lo + b.lo))

\* a - b in double arithmetic, for a >= b.
DoubleSub(a, b) ==
  IF a.lo >= b.lo
  THEN Round(a.hi - b.hi, a.lo - b.lo)
  ELSE Round(a.hi - b.hi - 1, a.lo + Limb - b.lo)

\* The doubles written 0.1, 0.5, 1 and 2 in the source.
MIN_ZOOM == Double(26843545, 161061274)

MAX_ZOOM == Double(2 * Limb, 0)

SNAP_ZOOM_THRESHOLD == Double(Limb \div 2, 0)

ZOOM_STEP == Double(26843545, 161061274)

One == Double(Limb, 0)

DEFAULT_VIEWPORT == [x |-> 0, y |-> 0, zoom |-> One, zoomPhase |-> "snap"]

\* The double written 0.8 in the source.
FocusRatio == Double(214748364, 214748368)

\* The state create() returns.
InitialView ==
  [mode |-> "chat",
   viewport |-> DEFAULT_VIEWPORT,
   isInputVisible |-> TRUE,
   focusRatio |-> FocusRatio,
   selectedNodeId |-> NULL]

\* A slip the mode claim must catch: the zoom phase is left as it was.
setViewModeKeepsPhase(state, mode) ==
  [state EXCEPT !.mode = mode, !.isInputVisible = (mode # "overview")]

setViewMode(state, mode) ==
  [state EXCEPT
     !.mode = mode,
     !.isInputVisible = (mode # "overview"),
     !.viewport.zoomPhase = IF mode = "overview" THEN "free" ELSE "snap"]

\* { ...state.viewport, ...viewportUpdate }
setViewport(state, viewportUpdate) ==
  [state EXCEPT !.viewport = Spread(@, viewportUpdate)]

\* Math.max(MIN_ZOOM, Math.min(MAX_ZOOM, currentZoom + zoomChange)), where
\* zoomChange is -ZOOM_STEP for delta > 0 and ZOOM_STEP otherwise. A sum
\* below zero is below MIN_ZOOM, and Math.max returns MIN_ZOOM.
steppedZoom(currentZoom, delta) ==
  IF delta > 0
  THEN IF Less(currentZoom, ZOOM_STEP)
       THEN MIN_ZOOM
       ELSE MathMax(MIN_ZOOM, MathMin(MAX_ZOOM, DoubleSub(currentZoom, ZOOM_STEP)))
  ELSE MathMax(MIN_ZOOM, MathMin(MAX_ZOOM, DoubleAdd(currentZoom, ZOOM_STEP)))

\* A slip the snap-back claim must catch: the zoom reached is kept.
snapBackKeepsZoom(newZoom) == newZoom

\* newZoom = 1, on the way back from overview.
snapBack(newZoom) == One

\* A slip the input-visibility claim must catch: the zoom step leaves
\* isInputVisible as it was.
zoomedKeepsInput(state, newMode, newZoom, newZoomPhase) ==
  [state EXCEPT
     !.mode = newMode,
     !.viewport.zoom = newZoom,
     !.viewport.zoomPhase = newZoomPhase]

\* The object handleZoom's callback returns.
zoomed(state, newMode, newZoom, newZoomPhase) ==
  [state EXCEPT
     !.mode = newMode,
     !.viewport.zoom = newZoom,
     !.viewport.zoomPhase = newZoomPhase,
     !.isInputVisible = (newMode # "overview")]

\* The mode switching of handleZoom, from the clamped zoom on.
zoomTransition(state, newZoom, isCtrl) ==
  IF isCtrl /\ Less(newZoom, SNAP_ZOOM_THRESHOLD)
  THEN zoomed(state, "overview", newZoom, "free")
  ELSE IF isCtrl /\ state.mode = "overview" /\ ~Less(newZoom, One)
  THEN zoomed(state, "chat", snapBack(newZoom), "snap")
  ELSE zoomed(state, state.mode, newZoom, state.viewport.zoomPhase)

\* A slip the claim on plain zoom steps must catch: the Ctrl key is not
\* looked at.
handleZoomAsIfCtrl(state, delta, isCtrl) ==
  zoomTransition(state, steppedZoom(state.viewport.zoom, delta), TRUE)

handleZoom(state, delta, isCtrl) ==
  zoomTransition(state, steppedZoom(state.viewport.zoom, delta), isCtrl)

handlePan(state, deltaX, deltaY) ==
  [state EXCEPT !.viewport.x = @ + deltaX, !.viewport.y = @ + deltaY]

\* A slip the mode and zoom-phase claim must catch: the selection leaves
\* overview with the zoom phase still free.
selectNodeKeepsPhase(state, nodeId) ==
  IF nodeId # NULL /\ state.mode = "overview"
  THEN [state EXCEPT
          !.selectedNodeId = nodeId,
          !.mode = "chat",
          !.isInputVisible = TRUE,
          !.viewport.zoom = One]
  ELSE [state EXCEPT !.selectedNodeId = nodeId]

\* A slip the selection claim must catch: the whole viewport is reset, pan
\* included.
selectNodeResetsViewport(state, nodeId) ==
  IF nodeId # NULL /\ state.mode = "overview"
  THEN [state EXCEPT
          !.selectedNodeId = nodeId,
          !.mode = "chat",
          !.isInputVisible = TRUE,
          !.viewport = DEFAULT_VIEWPORT]
  ELSE [state EXCEPT !.selectedNodeId = nodeId]

selectNode(state, nodeId) ==
  IF nodeId # NULL /\ state.mode = "overview"
  THEN [state EXCEPT
          !.selectedNodeId = nodeId,
          !.mode = "chat",
          !.isInputVisible = TRUE,
          !.viewport.zoom = One,
          !.viewport.zoomPhase = "snap"]
  ELSE [state EXCEPT !.selectedNodeId = nodeId]

\* visible ?? !state.isInputVisible; the argument is "true", "false" or,
\* when left out, "undefined".
toggleInputVisibility(state, visible) ==
  [state EXCEPT !.isInputVisible = IF visible = "undefined" THEN ~@ ELSE visible = "true"]

\* A slip the reset claim must catch: the selection survives.
resetViewportKeepsSelection(state) ==
  [state EXCEPT
     !.viewport = DEFAULT_VIEWPORT,
     !.mode = "chat",
     !.isInputVisible = TRUE]

resetViewport(state) ==
  [state EXCEPT
     !.viewport = DEFAULT_VIEWPORT,
     !.mode = "chat",
     !.isInputVisible = TRUE,
     !.selectedNodeId = NULL]

\* ------------------------------------------------------------- actions
\* A write to the conversation store; the view store is a store of its own
\* and is written by its own actions only.
SetStore(st) ==
  /\ conversations' = st.conversations
  /\ activeConversationId' = st.activeConversationId
  /\ nextId' = st.nextId
  /\ nextConvId' = st.nextConvId
  /\ UNCHANGED <<view, draft, rows, llm, tx>>

Init ==
  /\ conversations = EmptyMap
  /\ activeConversationId = NULL
  /\ nextId = 1
  /\ nextConvId = 1
  /\ timers = <<>>
  /\ error = "none"
  /\ view = InitialView
  /\ draft = Detected(<<>>)
  /\ rows = EmptyMap
  /\ llm = InitialManager
  /\ tx = EmptyMap

CreateConversation ==
  \E title \in Titles :
    /\ nextConvId <= MaxConvs
    /\ SetStore(createConversation(Store, title))
    /\ UNCHANGED <<timers, error>>

SetActiveConversation ==
  \E id \in {NULL} \cup ConversationIds :
    /\ SetStore(setActiveConversation(Store, id))
    /\ UNCHANGED <<timers, error>>

DeleteConversationCall(id) ==
  /\ SetStore(deleteConversation(Store, id))
  /\ UNCHANGED <<timers, error>>

DeleteConversation == \E id \in ConversationIds : DeleteConversationCall(id)

\* A throw leaves the store as it was.
AddMessageCall(messageData) ==
  /\ nextId <= MaxMsgs
  /\ SetStore(addMessage(Store, messageData).st)
  /\ UNCHANGED <<timers, error>>

AddMessage == \E messageData \in MessageDatas : AddMessageCall(messageData)

UpdateMessageCall(id, updates) ==
  /\ SetStore(updateMessage(Store, id, updates))
  /\ UNCHANGED <<timers, error>>

UpdateMessage ==
  \E id \in MessageIds, updates \in Updates : UpdateMessageCall(id, updates)

\* createConversation while there is room for a further tree.
FurtherConversation ==
  \E title \in Titles :
    /\ nextConvId <= MaxSendConvs
    /\ SetStore(createConversation(Store, title))
    /\ UNCHANGED <<timers, error>>

AddTreeMessage == \E messageData \in TreeMessageDatas : AddMessageCall(messageData)

PatchMessage ==
  \E id \in MessageIds, updates \in Patches : UpdateMessageCall(id, updates)

CreateBranchCall(parentId) ==
  /\ SetStore(createBranch(Store, parentId).st)
  /\ UNCHANGED <<timers, error>>

CreateBranch == \E parentId \in MessageIds : CreateBranchCall(parentId)

SetActivePathCall(path) ==
  /\ SetStore(setActivePath(Store, path))
  /\ UNCHANGED <<timers, error>>

SetActivePath == \E path \in Paths : SetActivePathCall(path)

\* The chat view's mount effect: with no active conversation it creates one.
InitialConversation ==
  /\ activeConversationId = NULL
  /\ nextConvId <= MaxSendConvs
  /\ SetStore(createConversation(Store, "New Chat"))
  /\ UNCHANGED <<timers, error>>

SetSendPath ==
  \E path \in SendPaths :
    /\ SetStore(setActivePath(Store, path))
    /\ UNCHANGED <<timers, error>>

SendMessageCall(content) ==
  /\ nextId + IdsNeeded(content) - 1 <= MaxSendMsgs
  /\ LET r == handleSendMessage(Store, error, content)
     IN /\ SetStore(r.st)
        /\ timers' = timers \o r.scheduled
        /\ error' = r.error


TimerFires ==
  /\ timers # <<>>
  /\ SetStore(timerCallback(Store, Head(timers)))
  /\ timers' = Tail(timers)
  /\ UNCHANGED error

SendMessage == \E content \in Contents : SendMessageCall(content)

\* ----------------------------------------------------- view store actions
ViewModes == {"chat", "branch", "overview"}

\* The deltaY of a wheel event.
WheelDeltas == {-100, 0, 100}

PanDeltas == {-1, 0, 1}

\* Partial<Viewport> values; the type admits any number as zoom.
ViewportUpdates ==
  { [zoom |-> Double(3 * Limb, 0)],
    [zoomPhase |-> "free"],
    [x |-> 0, y |-> 0] }

ViewNodeIds == 1..MaxMsgs

Visibles == {"undefined", "true", "false"}

\* The variables of the conversation store and of the chat view.
storeVars == <<conversations, activeConversationId, nextId, nextConvId, timers, error>>

SetViewMode ==
  \E mode \in ViewModes :
    /\ view' = setViewMode(view, mode)
    /\ UNCHANGED <<storeVars, draft, rows, llm, tx>>

SetViewport ==
  \E viewportUpdate \in ViewportUpdates :
    /\ view' = setViewport(view, viewportUpdate)
    /\ UNCHANGED <<storeVars, draft, rows, llm, tx>>

HandleZoomCall(delta, isCtrl) ==
  /\ view' = handleZoom(view, delta, isCtrl)
  /\ UNCHANGED <<storeVars, draft, rows, llm, tx>>

HandleZoom == \E delta \in WheelDeltas, isCtrl \in BOOLEAN : HandleZoomCall(delta, isCtrl)

HandlePan ==
  \E deltaX \in PanDeltas, deltaY \in PanDeltas :
    /\ view.viewport.x + deltaX \in (-MaxPan)..MaxPan
    /\ view.viewport.y + deltaY \in (-MaxPan)..MaxPan
    /\ view' = handlePan(view, deltaX, deltaY)
    /\ UNCHANGED <<storeVars, draft, rows, llm, tx>>

SelectNode ==
  \E nodeId \in {NULL} \cup ViewNodeIds :
    /\ view' = selectNode(view, nodeId)
    /\ UNCHANGED <<storeVars, draft, rows, llm, tx>>

ToggleInputVisibility ==
  \E visible \in Visibles :
    /\ view' = toggleInputVisibility(view, visible)
    /\ UNCHANGED <<storeVars, draft, rows, llm, tx>>

ResetViewport ==
  /\ view' = resetViewport(view)
  /\ UNCHANGED <<storeVars, draft, rows, llm, tx>>


Next ==
  \/ CreateConversation
  \/ SetActiveConversation
  \/ DeleteConversation
  \/ AddMessage
  \/ UpdateMessage
  \/ CreateBranch
  \/ SetActivePath

\* The store under direct calls of each of its operations.
Spec == Init /\ [][Next]_vars

NextTrees ==
  \/ FurtherConversation
  \/ SetActiveConversation
  \/ DeleteConversation
  \/ AddTreeMessage
  \/ PatchMessage
  \/ CreateBranch

\* The store holding several trees, one of them active, under every
\* operation that writes to a tree.
TreesSpec == Init /\ [][NextTrees]_vars

\* addMessage with a reply that completed or failed.
RetryMessage ==
  \E messageData \in RetryDatas :
    /\ nextId <= MaxRetryMsgs
    /\ SetStore(addMessage(Store, messageData).st)
    /\ UNCHANGED <<timers, error>>

NextRetry ==
  \/ CreateConversation
  \/ RetryMessage
  \/ CreateBranch

\* One tree under createBranch and addMessage: a parent is branched from
\* and a further child is added below it.
RetrySpec == Init /\ [][NextRetry]_vars

NextPatch ==
  \/ CreateConversation
  \/ SetActiveConversation
  \/ AddMessage
  \/ PatchMessage
  \/ SetActivePath

\* The store's messages under updateMessage calls with any patch the type
\* of updates admits.
PatchSpec == Init /\ [][NextPatch]_vars

NextSend ==
  \/ InitialConversation
  \/ SetActiveConversation
  \/ SetSendPath
  \/ SendMessage
  \/ TimerFires

\* The chat view at work: sends, their timers, and the navigation that may
\* run between a send and its timer.
SendSpec == Init /\ [][NextSend]_vars

NextTurns ==
  \/ InitialConversation
  \/ SetActiveConversation
  \/ SendMessage
  \/ TimerFires

\* The chat view's sends on their own: every message of every tree is
\* created by handleSendMessage, and the path is moved by nothing else.
TurnsSpec == Init /\ [][NextTurns]_vars

\* A pending setTimeout callback is run by the event loop.
FairSendSpec == SendSpec /\ WF_vars(TimerFires)

\* The characters texts are made of: a letter, a blank, a question mark, a
\* line feed, a bullet and the two characters of the first connecting word.
DraftChars == {"x", " ", "?", "\n", "-", "u53E6", "u5916"}

\* The text grows by one character and is run through the detector.
Detect ==
  \E c \in DraftChars :
    /\ Len(draft.content) < MaxDraftLen
    /\ draft' = Detected(Append(draft.content, c))
    /\ UNCHANGED <<storeVars, view, rows, llm, tx>>

\* The text is cleared.
ClearDraft ==
  /\ draft.content # <<>>
  /\ draft' = Detected(<<>>)
  /\ UNCHANGED <<storeVars, view, rows, llm, tx>>

\* The pieces texts with lists, questions and connectives are put together
\* from: the two kinds of list marker, a letter, a line feed, a question
\* mark and the first connecting word.
DraftPieces == { <<"1", ".">>, <<"-", " ">>, <<"x">>, <<"\n">>, <<"?">>, <<"u53E6", "u5916">> }

\* The text grows by one piece and is run through the detector.
DetectPiece ==
  \E piece \in DraftPieces :
    /\ Len(draft.content) + Len(piece) <= MaxTextLen
    /\ draft' = Detected(draft.content \o piece)
    /\ UNCHANGED <<storeVars, view, rows, llm, tx>>

NextPhrase ==
  \/ DetectPiece
  \/ ClearDraft

\* detectMultipleQuestions on texts long enough to hold a list of two items,
\* two questions, or two parts around a connecting word.
PhraseSpec == Init /\ [][NextPhrase]_vars

NextDetect ==
  \/ Detect
  \/ ClearDraft

\* detectMultipleQuestions on every text up to a length.
DetectSpec == Init /\ [][NextDetect]_vars

\* The ids messages are inserted with: texts of the UUID alphabet with
\* hyphens at different places.
Uuids == { <<"a", "-", "1">>, <<"a", "1", "-">>, <<"-", "a", "1">>, <<"a", "a", "1">> }

\* INSERT INTO messages with path = generate_message_path(parent_id, id);
\* id is the primary key, and the insert fails with the function.
InsertMessage ==
  \E id \in Uuids \ DOMAIN rows, parent_id \in {NoUuid} \cup Uuids :
    /\ ~generate_message_path(rows, parent_id, id).raised
    /\ rows' = MapSet(rows, id, [parent_id |-> parent_id,
                                 path |-> generate_message_path(rows, parent_id, id).path])
    /\ UNCHANGED <<storeVars, view, draft, llm, tx>>

\* DELETE FROM messages WHERE id = ..., with the cascade along parent_id.
DeleteMessage ==
  \E id \in DOMAIN rows :
    /\ rows' = [r \in (DOMAIN rows) \ Cascade(rows, {id}) |-> rows[r]]
    /\ UNCHANGED <<storeVars, view, draft, llm, tx>>

NextDb ==
  \/ InsertMessage
  \/ DeleteMessage

\* The messages table under inserts that take their path from
\* generate_message_path, and deletes.
DbSpec == Init /\ [][NextDb]_vars

\* text.replace(/-/g, '_') in seed.ts.
replaceHyphens(text) == REPLACE(text, "-", "_")

\* seedDatabase's transaction on the messages table: the root row takes its
\* id from the column default and its path from a crypto.randomUUID() of its
\* own; the assistant row takes a second crypto.randomUUID() as id and a
\* path spelled from the two ids. An id that is already a primary key fails
\* the insert and rolls the transaction back.
SeedDatabase ==
  \E rootMsgId \in Uuids \ DOMAIN rows, rootPathUuid \in Uuids, assistantMsgId \in Uuids :
    /\ assistantMsgId \notin DOMAIN rows \cup {rootMsgId}
    /\ rows' = MapSet(MapSet(rows, rootMsgId,
                         [parent_id |-> NoUuid,
                          path |-> ToLtree(replaceHyphens(rootPathUuid), <<>>)]),
                       assistantMsgId,
                       [parent_id |-> rootMsgId,
                        path |-> ToLtree(replaceHyphens(rootMsgId) \o <<".">>
                                           \o replaceHyphens(assistantMsgId), <<>>)])
    /\ UNCHANGED <<storeVars, view, draft, llm, tx>>

NextSeed ==
  \/ SeedDatabase
  \/ DeleteMessage

\* The messages table under runs of the seed script and deletes.
SeedSpec == Init /\ [][NextSeed]_vars

\* ------------------------------------------------ withTransaction actions
\* withTransaction(fn) is called, with either declaration.
WithTransaction ==
  \E declaration \in TxDeclarations :
    /\ Cardinality(DOMAIN tx) < MaxCalls
    /\ tx' = MapSet(tx, Cardinality(DOMAIN tx) + 1, newCall(declaration))
    /\ UNCHANGED <<storeVars, view, draft, rows, llm>>

\* pool.connect() settles.
Connect ==
  \E c \in DOMAIN tx, ok \in BOOLEAN :
    /\ tx[c].pc = "connect"
    /\ tx' = MapSet(tx, c, connect(tx[c], ok))
    /\ UNCHANGED <<storeVars, view, draft, rows, llm>>

\* client.query('BEGIN') settles.
Begin ==
  \E c \in DOMAIN tx, ok \in BOOLEAN :
    /\ tx[c].pc = "BEGIN"
    /\ tx' = MapSet(tx, c, tryStep(tx[c], "BEGIN", "fn", ok, FALSE))
    /\ UNCHANGED <<storeVars, view, draft, rows, llm>>

\* fn(client) settles; what it throws may or may not be a DatabaseError.
RunFn ==
  \E c \in DOMAIN tx, ok \in BOOLEAN, isDatabaseError \in BOOLEAN :
    /\ tx[c].pc = "fn"
    /\ tx' = MapSet(tx, c, tryStep(tx[c], "fn", "COMMIT", ok, isDatabaseError))
    /\ UNCHANGED <<storeVars, view, draft, rows, llm>>

\* client.query('COMMIT') settles; after it the result is returned through
\* finally.
Commit ==
  \E c \in DOMAIN tx, ok \in BOOLEAN :
    /\ tx[c].pc = "COMMIT"
    /\ tx' = MapSet(tx, c, tryStep(tx[c], "COMMIT", "release", ok, FALSE))
    /\ UNCHANGED <<storeVars, view, draft, rows, llm>>

\* client.query('ROLLBACK') settles in the catch block.
Rollback ==
  \E c \in DOMAIN tx, ok \in BOOLEAN :
    /\ tx[c].pc = "ROLLBACK"
    /\ tx' = MapSet(tx, c, catch(tx[c], ok))
    /\ UNCHANGED <<storeVars, view, draft, rows, llm>>

\* client.release() in finally, and the call settles.
Release ==
  \E c \in DOMAIN tx :
    /\ tx[c].pc = "release"
    /\ tx' = MapSet(tx, c, finally(tx[c]))
    /\ UNCHANGED <<storeVars, view, draft, rows, llm>>

NextTx ==
  \/ WithTransaction
  \/ Connect
  \/ Begin
  \/ RunFn
  \/ Commit
  \/ Rollback
  \/ Release

\* withTransaction calls, each statement succeeding or failing.
TxSpec == Init /\ [][NextTx]_vars

\* ------------------------------------------------------- LLM actions
\* The class declarations a request can run: two for Ollama, one otherwise.
Declarations(provider) == IF provider = "ollama" THEN {1, 2} ELSE {1}

Items(provider) ==
  IF provider = "ollama" THEN {"delta", "stop", "other", "eor"}
  ELSE {"delta", "stop", "other"}

\* Everything a provider may deliver on a stream, up to a length.
StreamDatas(provider) == UNION {[1..n -> Items(provider)] : n \in 0..MaxStreamLen}

FreeRequestId == CHOOSE id \in 1..(Cardinality(DOMAIN llm.requests) + 1) : ~Has(llm.requests, id)

\* LLMManager.stream(provider, config) while no other request is under way.
StartStream ==
  \E provider \in Providers :
    \E declaration \in Declarations(provider), data \in StreamDatas(provider) :
      /\ DOMAIN llm.requests = {}
      /\ llm' = startRequest(llm, FreeRequestId,
                             newRequest(provider, declaration, "stream", data))
      /\ UNCHANGED <<storeVars, view, draft, rows, tx>>

\* LLMManager.complete or stream, next to the requests under way.
StartRequest ==
  \E provider \in Providers, kind \in {"complete", "stream"} :
    \E declaration \in Declarations(provider) :
      /\ Cardinality(DOMAIN llm.requests) < MaxRequests
      /\ llm' = startRequest(llm, FreeRequestId,
                             newRequest(provider, declaration, kind, <<"delta", "stop">>))
      /\ UNCHANGED <<storeVars, view, draft, rows, tx>>

\* The consumer asks a stream for its next chunk.
NextChunk ==
  \E id \in DOMAIN llm.requests :
    /\ llm.requests[id].kind = "stream"
    /\ llm.requests[id].status = "running"
    /\ llm' = [llm EXCEPT !.requests[id] = resume(@)]
    /\ UNCHANGED <<storeVars, view, draft, rows, tx>>

\* The provider answers a completion.
CompleteReturns ==
  \E id \in DOMAIN llm.requests :
    /\ llm.requests[id].kind = "complete"
    /\ llm.requests[id].status = "running"
    /\ llm' = [llm EXCEPT !.requests[id] = return(@)]
    /\ UNCHANGED <<storeVars, view, draft, rows, tx>>

\* LLMManager.abort()
Abort ==
  /\ llm' = managerAbort(llm)
  /\ UNCHANGED <<storeVars, view, draft, rows, tx>>

\* The caller drops a request that has ended.
Forget ==
  \E id \in DOMAIN llm.requests :
    /\ llm.requests[id].status # "running"
    /\ llm' = [llm EXCEPT !.requests = MapDelete(@, id)]
    /\ UNCHANGED <<storeVars, view, draft, rows, tx>>

NextStream ==
  \/ StartStream
  \/ NextChunk
  \/ Abort
  \/ Forget

\* One stream at a time, over everything a provider may deliver.
StreamSpec == Init /\ [][NextStream]_vars

NextAbort ==
  \/ StartRequest
  \/ NextChunk
  \/ CompleteReturns
  \/ Abort
  \/ Forget

\* Requests that overlap in time, and abort().
AbortSpec == Init /\ [][NextAbort]_vars

NextView ==
  \/ SetViewMode
  \/ SetViewport
  \/ HandleZoom
  \/ HandlePan
  \/ SelectNode
  \/ ToggleInputVisibility
  \/ ResetViewport

\* The view store under every action of its interface.
ViewSpec == Init /\ [][NextView]_vars

NextViewMachine ==
  \/ SetViewMode
  \/ HandleZoom
  \/ HandlePan
  \/ SelectNode
  \/ ResetViewport

\* The view state machine: the view store under the operations that switch
\* mode, zoom, pan, select and reset, without setViewport and without the
\* input toggle.
ViewMachineSpec == Init /\ [][NextViewMachine]_vars

\* ------------------------------------------------------------ properties
InSeq(x, seq) == \E i \in 1..Len(seq) : seq[i] = x

\* Every id a message, a parent or a path element can be.
AllIds == 1..NoSuchId

HasActiveTree ==
  activeConversationId # NULL /\ Has(conversations, activeConversationId)

\* c is a child of p in tree t: both are nodes, c names p as its parent and
\* p lists c among its children.
IsLink(t, p, c) ==
  /\ Has(t.nodes, p)
  /\ Has(t.nodes, c)
  /\ t.nodes[c].parentId = p
  /\ InSeq(c, t.nodes[p].children)

\* C1 (as claimed): in every tree the active path is connected -- each
\* consecutive pair of activePath is a direct parent->child link -- and it is
\* empty or starts at the tree's root.
C1_ActivePathConnected ==
  \A c \in DOMAIN conversations :
    LET t == conversations[c]
        path == t.activePath
    IN /\ \A i \in 1..(Len(path) - 1) : IsLink(t, path[i], path[i + 1])
       /\ path = <<>> \/ path[1] = t.conversation.rootMessageId

\* C2 (as claimed): addMessage with a non-null parentId that is no node of
\* the active tree throws and leaves every tree as it was.
C2_MissingParentRejected ==
  [][\A messageData \in MessageDatas :
       (/\ HasActiveTree
        /\ messageData.parentId # NULL
        /\ messageData.parentId \notin ActiveNodeIds
        /\ AddMessageCall(messageData))
       => (/\ addMessage(Store, messageData).err # "none"
           /\ conversations' = conversations)]_vars

\* C3 (as claimed): a message's branchIndex is the number of its siblings
\* (the messages with the same parentId) created before it; ids are handed
\* out in creation order.
C3_BranchIndexCountsEarlierSiblings ==
  \A c \in DOMAIN conversations :
    LET t == conversations[c]
    IN \A m \in DOMAIN t.messages :
         t.messages[m].branchIndex =
           Cardinality({sib \in DOMAIN t.messages :
                          /\ sib < m
                          /\ t.messages[sib].parentId = t.messages[m].parentId})

\* C6 (as claimed): c is listed in nodes[p].children exactly when c is a
\* message whose parentId (in the Message and in the BranchNode) is p, and
\* no children list holds an id twice.
C6_ParentChildConsistent ==
  \A c \in DOMAIN conversations :
    LET t == conversations[c]
    IN /\ \A p \in AllIds, ch \in AllIds :
            (Has(t.nodes, p) /\ InSeq(ch, t.nodes[p].children))
            <=> (/\ Has(t.messages, ch)
                 /\ Has(t.nodes, ch)
                 /\ t.messages[ch].parentId = p
                 /\ t.nodes[ch].parentId = p)
       /\ \A p \in DOMAIN t.nodes :
            \A i \in 1..Len(t.nodes[p].children), j \in 1..Len(t.nodes[p].children) :
              t.nodes[p].children[i] = t.nodes[p].children[j] => i = j

\* C7 (as claimed): a node is flagged isActive exactly when its id occurs in
\* the tree's activePath.
C7_IsActiveIffOnPath ==
  \A c \in DOMAIN conversations :
    LET t == conversations[c]
    IN \A n \in DOMAIN t.nodes : t.nodes[n].isActive <=> InSeq(n, t.activePath)

\* C4 (as claimed): the user messages one auto-branching send inserts get
\* pairwise distinct, strictly increasing branchIndex values in insertion
\* order, whatever the active path was (empty included).
C4_AutoBranchIndexOrder ==
  [][\A content \in Contents :
       (/\ HasActiveTree
        /\ shouldAutoBranch(DetectionOf[content])
        /\ SendMessageCall(content))
       => LET after == conversations'[activeConversationId].messages
              newUsers == {m \in DOMAIN after : m >= nextId /\ after[m].role = "user"}
          IN \A u \in newUsers, v \in newUsers :
               u < v => after[u].branchIndex < after[v].branchIndex]_vars

\* The message of tree t inserted first: ids are handed out in insertion
\* order and the store never removes a message from a tree.
FirstInserted(t) ==
  CHOOSE m \in DOMAIN t.messages : \A other \in DOMAIN t.messages : m <= other

RootIsFirstInserted ==
  \A c \in DOMAIN conversations :
    LET t == conversations[c]
    IN t.conversation.rootMessageId =
         IF DOMAIN t.messages = {} THEN NULL ELSE FirstInserted(t)

RootKept ==
  \A c \in (DOMAIN conversations) \cap (DOMAIN conversations') :
    conversations[c].conversation.rootMessageId # NULL
    => conversations'[c].conversation.rootMessageId
         = conversations[c].conversation.rootMessageId

\* C5: in every conversation rootMessageId is null while the tree has no
\* message and is the id of the first message inserted afterwards, and no
\* step of any operation changes it once it is set.
C5_RootSetOnce == []RootIsFirstInserted /\ [][RootKept]_vars

\* A second root-level message has been inserted and the root is still the
\* first one.
C5_Witness ==
  \E c \in DOMAIN conversations :
    LET t == conversations[c]
    IN /\ Cardinality(DOMAIN t.messages) >= 2
       /\ \A m \in DOMAIN t.messages : t.messages[m].parentId = NULL
       /\ t.conversation.rootMessageId = FirstInserted(t)

\* What an auto-branching send of content leaves behind, given the store
\* before it (unprimed) and after it (primed).
AutoBranchPost(content) ==
  LET questions == DetectionOf[content].questions
      n == Len(questions)
      before == conversations[activeConversationId]
      after == conversations'[activeConversationId]
      path == before.activePath
      parentId == IF path = <<>> THEN NULL ELSE path[Len(path)]
      first == nextId
  IN /\ DOMAIN conversations' = DOMAIN conversations
     /\ \A c \in (DOMAIN conversations) \ {activeConversationId} :
          conversations'[c] = conversations[c]
     /\ DOMAIN after.messages = (DOMAIN before.messages) \cup (first..(first + 2 * n - 1))
     /\ \A m \in DOMAIN before.messages : after.messages[m] = before.messages[m]
     /\ \A k \in 1..n :
          LET user == first + 2 * (k - 1)
              assistant == user + 1
          IN /\ after.messages[user].role = "user"
             /\ after.messages[user].content = questions[k]
             /\ after.messages[user].parentId = parentId
             /\ after.nodes[user].parentId = parentId
             /\ after.messages[assistant].role = "assistant"
             /\ after.messages[assistant].content = <<>>
             /\ after.messages[assistant].status = "pending"
             /\ after.messages[assistant].parentId = user
             /\ after.nodes[assistant].parentId = user

\* C8: a send that auto-branches on questions q1..qn adds to the active tree,
\* for each k in order, one user message with content qk under the id that
\* was last in activePath (null if it was empty) and one empty pending
\* assistant message under that user message, and adds or changes no other
\* message of any tree.
C8_AutoBranchStructure ==
  [][\A content \in Contents :
       (/\ HasActiveTree
        /\ shouldAutoBranch(DetectionOf[content])
        /\ SendMessageCall(content))
       => AutoBranchPost(content)]_vars

\* An auto-branch has run from a non-empty active path: two questions hang
\* under the same existing node, each with its pending placeholder.
C8_Witness ==
  \E c \in DOMAIN conversations, content \in Contents :
    LET t == conversations[c]
        questions == DetectionOf[content].questions
    IN /\ shouldAutoBranch(DetectionOf[content])
       /\ \E u \in DOMAIN t.messages :
            /\ \A k \in 1..Len(questions) :
                 LET user == u + 2 * (k - 1)
                 IN /\ Has(t.messages, user)
                    /\ Has(t.messages, user + 1)
                    /\ t.messages[user].role = "user"
                    /\ t.messages[user].content = questions[k]
                    /\ t.messages[user].parentId = t.messages[u].parentId
                    /\ t.messages[user + 1].role = "assistant"
                    /\ t.messages[user + 1].status = "pending"
                    /\ t.messages[user + 1].parentId = user
            /\ Has(t.nodes, t.messages[u].parentId)

\* Message m of conversation c is an assistant placeholder still pending.
PendingPlaceholder(c, m) ==
  /\ Has(conversations, c)
  /\ Has(conversations[c].messages, m)
  /\ conversations[c].messages[m].role = "assistant"
  /\ conversations[c].messages[m].status = "pending"

\* Message m of conversation c has left the pending state for good.
Settled(c, m) ==
  /\ Has(conversations, c)
  /\ Has(conversations[c].messages, m)
  /\ conversations[c].messages[m].status \in {"completed", "error"}

\* C9: with the event loop running its timers, every assistant placeholder a
\* send inserted as pending, in the single flow and in each branch of an
\* auto-branch, eventually has status completed or error.
C9_PlaceholderEventuallySettled ==
  \A c \in { 0 - k : k \in 1..MaxSendConvs }, m \in 1..MaxSendMsgs :
    PendingPlaceholder(c, m) ~> Settled(c, m)

\* The completion at the head of the timer queue lands on its placeholder,
\* in whichever conversation holds it, and on nothing else.
CompletionLanded ==
  LET id == Head(timers)
  IN /\ DOMAIN conversations' = DOMAIN conversations
     /\ \A c \in DOMAIN conversations :
          /\ DOMAIN conversations'[c].messages = DOMAIN conversations[c].messages
          /\ \A m \in DOMAIN conversations[c].messages :
               IF m = id
               THEN /\ conversations'[c].messages[m].status = "completed"
                    /\ conversations'[c].messages[m].content = PlaceholderResponse
               ELSE conversations'[c].messages[m] = conversations[c].messages[m]
     /\ \E c \in DOMAIN conversations : Has(conversations[c].messages, id)

\* C10: whatever ran between a send and the arrival of its completion, the
\* completion sets content and status of that send's placeholder in the
\* conversation where it was inserted, and changes no other message.
C10_CompletionReachesItsPlaceholder ==
  [][TimerFires => CompletionLanded]_vars

\* What setActivePath(path) makes of the store before it.
SetActivePathPost(before, after, path) ==
  /\ after.activeConversationId = before.activeConversationId
  /\ after.nextId = before.nextId
  /\ DOMAIN after.conversations = DOMAIN before.conversations
  /\ \A c \in (DOMAIN before.conversations) \ {before.activeConversationId} :
       after.conversations[c] = before.conversations[c]
  /\ HasActiveTree =>
       /\ after.conversations[activeConversationId].activePath = path
       /\ after.conversations[activeConversationId].messages
            = before.conversations[activeConversationId].messages
       /\ after.conversations[activeConversationId].conversation
            = before.conversations[activeConversationId].conversation
       /\ DOMAIN after.conversations[activeConversationId].nodes
            = DOMAIN before.conversations[activeConversationId].nodes
       /\ \A n \in DOMAIN before.conversations[activeConversationId].nodes :
            after.conversations[activeConversationId].nodes[n]
              = [before.conversations[activeConversationId].nodes[n]
                   EXCEPT !.isActive = InSeq(n, path)]

\* C11: setActivePath(path), called in any state of the store, replaces
\* activePath of the active conversation by path, leaves exactly the nodes
\* whose id is in path with isActive = true, and changes no message,
\* children list, depth or parentId; with no active conversation it changes
\* nothing.
C11_SetActivePathFlags ==
  \A path \in Paths : SetActivePathPost(Store, setActivePath(Store, path), path)

\* setActivePath has switched a node off: a tree whose active path names one
\* of its nodes, flagged active, while another node is flagged inactive.
C11_Witness ==
  \E c \in DOMAIN conversations :
    LET t == conversations[c]
    IN \E on \in DOMAIN t.nodes, off \in DOMAIN t.nodes :
         /\ t.activePath = <<on>>
         /\ t.nodes[on].isActive
         /\ ~t.nodes[off].isActive

\* What a successful addMessage leaves in the active tree's path and root.
AddMessagePathPost ==
  LET before == conversations[activeConversationId]
      after == conversations'[activeConversationId]
  IN /\ ~Has(before.messages, nextId)
     /\ Has(after.messages, nextId)
     /\ after.activePath = Append(before.activePath, nextId)
     /\ after.conversation.rootMessageId =
          IF before.conversation.rootMessageId = NULL
          THEN nextId
          ELSE before.conversation.rootMessageId

\* C12: every successful addMessage appends exactly the new id at the end of
\* activePath, keeping the earlier elements in place and in order; so a root
\* message and then a message under it, inserted into a new conversation,
\* give activePath = [first, second] and rootMessageId = first.
C12_InsertAppendsToPath ==
  [][\A messageData \in MessageDatas :
       (AddMessageCall(messageData) /\ addMessage(Store, messageData).err = "none")
       => AddMessagePathPost]_vars

\* The scenario's end: a tree of exactly a root message and a message under
\* it, with both on the path in insertion order and the first as root.
C12_Witness ==
  \E c \in DOMAIN conversations :
    LET t == conversations[c]
    IN \E u \in DOMAIN t.messages, a \in DOMAIN t.messages :
         /\ DOMAIN t.messages = {u, a}
         /\ t.messages[u].parentId = NULL
         /\ t.messages[a].parentId = u
         /\ t.activePath = <<u, a>>
         /\ t.conversation.rootMessageId = u

\* What updateMessage(id, updates) on a message of the active tree may
\* change: the patched fields of that message, and never its id, parentId or
\* branchIndex, another message, a node, the path or the conversation.
UpdateMessagePost(id, updates) ==
  LET before == conversations[activeConversationId]
      after == conversations'[activeConversationId]
  IN /\ after.messages[id] = Spread(before.messages[id], updates)
     /\ after.messages[id].id = before.messages[id].id
     /\ after.messages[id].parentId = before.messages[id].parentId
     /\ after.messages[id].branchIndex = before.messages[id].branchIndex
     /\ DOMAIN after.messages = DOMAIN before.messages
     /\ \A m \in (DOMAIN before.messages) \ {id} : after.messages[m] = before.messages[m]
     /\ after.nodes = before.nodes
     /\ after.activePath = before.activePath
     /\ after.conversation = before.conversation

\* C13 (as claimed): updateMessage on an existing message merges the patch
\* into it and, for every patch it accepts, leaves the message's id, parentId
\* and branchIndex, every other message, every node, activePath and the
\* conversation record unchanged.  (Stated for a message that hangs under a
\* node of its tree, so that a refutation owes nothing to a missing parent.)
C13_UpdateKeepsLinkage ==
  [][\A id \in MessageIds, updates \in Patches :
       (/\ HasActiveTree
        /\ Has(conversations[activeConversationId].messages, id)
        /\ Has(conversations[activeConversationId].nodes,
               conversations[activeConversationId].messages[id].parentId)
        /\ UpdateMessageCall(id, updates))
       => UpdateMessagePost(id, updates)]_vars

\* C14 (as claimed): updateMessage with an id that is no message of the
\* active tree fails with a message-not-found error and leaves the store
\* unchanged.
C14_MissingMessageRejected ==
  \A id \in MessageIds, updates \in Updates :
    (HasActiveTree /\ ~Has(conversations[activeConversationId].messages, id))
    => /\ updateMessageError(Store, id, updates) # "none"
       /\ updateMessage(Store, id, updates) = Store

\* C15: while no conversation is active, addMessage fails with the
\* no-active-conversation error for every message data and changes no tree.
C15_NoActiveConversationRejected ==
  activeConversationId = NULL =>
    \A messageData \in MessageDatas :
      /\ addMessage(Store, messageData).err = "No active conversation"
      /\ addMessage(Store, messageData).id = NULL
      /\ addMessage(Store, messageData).st = Store

\* No conversation is active because the active one, which held a message,
\* was deleted.
C15_Witness ==
  /\ activeConversationId = NULL
  /\ nextId > 1
  /\ conversations = EmptyMap

\* C16: deleteConversation(id) removes exactly the tree with that id,
\* leaves every other tree unchanged, and sets activeConversationId to null
\* if and only if it was equal to id.
C16_DeleteRemovesOneTree ==
  [][\A id \in ConversationIds :
       DeleteConversationCall(id)
       => /\ DOMAIN conversations' = (DOMAIN conversations) \ {id}
          /\ \A c \in (DOMAIN conversations) \ {id} : conversations'[c] = conversations[c]
          /\ activeConversationId' =
               IF activeConversationId = id THEN NULL ELSE activeConversationId]_vars

\* A conversation that was not the active one has been deleted: the active
\* tree and its message are still there.
C16_Witness ==
  /\ nextConvId > 2
  /\ Cardinality(DOMAIN conversations) = 1
  /\ HasActiveTree
  /\ DOMAIN conversations[activeConversationId].messages # {}

\* The store st, reached from the current one by one call, differs from it
\* in no tree but the active one.
OtherTreesKept(st) ==
  /\ DOMAIN st.conversations = DOMAIN conversations
  /\ \A c \in (DOMAIN conversations) \ {activeConversationId} :
       st.conversations[c] = conversations[c]

\* C17: every addMessage, updateMessage, setActivePath, createBranch and
\* sendMessage, called in any state of a store of several trees, changes at
\* most the tree that is active at the call, whatever conversationId the
\* message data carries.
C17_NoCrossTreeEffects ==
  /\ \A messageData \in TreeMessageDatas : OtherTreesKept(addMessage(Store, messageData).st)
  /\ \A id \in MessageIds, updates \in Patches : OtherTreesKept(updateMessage(Store, id, updates))
  /\ \A id \in MessageIds : OtherTreesKept(setActivePath(Store, <<id>>))
  /\ \A parentId \in MessageIds : OtherTreesKept(createBranch(Store, parentId).st)
  /\ \A content \in Contents : OtherTreesKept(handleSendMessage(Store, error, content).st)

\* Two trees side by side, each with a message of its own: the one that is
\* not active got its message before the other was made active and written.
C17_Witness ==
  /\ HasActiveTree
  /\ DOMAIN conversations[activeConversationId].messages # {}
  /\ \E c \in (DOMAIN conversations) \ {activeConversationId} :
       DOMAIN conversations[c].messages # {}

\* handleZoom(delta, true) called again and again, at most n times, until
\* the mode is untilMode.
RECURSIVE RepeatCtrlZoom(_, _, _, _)
RepeatCtrlZoom(state, delta, untilMode, n) ==
  IF state.mode = untilMode \/ n = 0
  THEN state
  ELSE RepeatCtrlZoom(handleZoom(state, delta, TRUE), delta, untilMode, n - 1)

\* What one handleZoom(delta, true) makes of the state before.
CtrlZoomPost(before, after) ==
  /\ Less(after.viewport.zoom, SNAP_ZOOM_THRESHOLD)
     => after.mode = "overview" /\ after.viewport.zoomPhase = "free"
  /\ (before.mode = "overview" /\ ~Less(after.viewport.zoom, One))
     => /\ after.mode = "chat"
        /\ after.viewport.zoomPhase = "snap"
        /\ after.viewport.zoom = One

\* Zooming out with Ctrl from state start ends in overview, and zooming in
\* with Ctrl from there ends in chat at zoom 1.
RoundTrip(start, overview, chat) ==
  /\ overview = RepeatCtrlZoom(start, 100, "overview", MaxZoomSteps)
  /\ chat = RepeatCtrlZoom(overview, -100, "chat", MaxZoomSteps)
  /\ overview.mode = "overview"
  /\ overview.viewport.zoomPhase = "free"
  /\ Less(overview.viewport.zoom, SNAP_ZOOM_THRESHOLD)
  /\ chat.mode = "chat"
  /\ chat.viewport.zoomPhase = "snap"
  /\ chat.viewport.zoom = One

\* C18: in every view state, a zoom step with Ctrl held that ends below 0.5
\* leaves mode overview and zoomPhase free, and one taken in overview that
\* ends at 1.0 or above leaves mode chat, zoomPhase snap and zoom exactly
\* 1.0; from the initial state, zooming out with Ctrl again and again
\* reaches overview, and zooming in with Ctrl from there returns to chat
\* with zoom 1.0.
C18_CtrlZoomSwitchesMode ==
  /\ \A delta \in WheelDeltas : CtrlZoomPost(view, handleZoom(view, delta, TRUE))
  /\ view = InitialView
     => RoundTrip(view,
                  RepeatCtrlZoom(view, 100, "overview", MaxZoomSteps),
                  RepeatCtrlZoom(RepeatCtrlZoom(view, 100, "overview", MaxZoomSteps),
                                 -100, "chat", MaxZoomSteps))

\* Overview, as six zoom steps out with Ctrl from the initial state reach
\* it: the zoom is the double 0.40000000000000013.
C18_Witness ==
  /\ view.mode = "overview"
  /\ view.viewport.zoomPhase = "free"
  /\ view.viewport.zoom = Double(107374182, 107374192)
  /\ view.viewport.x = 0 /\ view.viewport.y = 0
  /\ ~view.isInputVisible

\* One handleZoom step from zoom currentZoom ends one ZOOM_STEP away, at a
\* bound, or at the zoom of the snap-back.
OneStepAway(currentZoom, delta, newZoom) ==
  \/ newZoom = MIN_ZOOM
  \/ newZoom = MAX_ZOOM
  \/ newZoom = One
  \/ delta > 0 /\ ~Less(currentZoom, ZOOM_STEP) /\ newZoom = DoubleSub(currentZoom, ZOOM_STEP)
  \/ delta <= 0 /\ newZoom = DoubleAdd(currentZoom, ZOOM_STEP)

\* C19: in every reachable view state viewport.zoom lies in [0.1, 2.0], and
\* each handleZoom step changes zoom by one step of 0.1 (down for
\* delta > 0, up otherwise) unless a bound or the snap-back applies.
C19_ZoomInRange ==
  /\ ~Less(view.viewport.zoom, MIN_ZOOM)
  /\ ~Less(MAX_ZOOM, view.viewport.zoom)
  /\ \A delta \in WheelDeltas, isCtrl \in BOOLEAN :
       OneStepAway(view.viewport.zoom, delta, handleZoom(view, delta, isCtrl).viewport.zoom)

\* C20: a zoom step without Ctrl held, of either sign and from any view
\* state, leaves mode, zoomPhase, viewport.x, viewport.y and selectedNodeId
\* as they were.
C20_PlainZoomKeepsMode ==
  [][\A delta \in WheelDeltas :
       HandleZoomCall(delta, FALSE)
       => /\ view'.mode = view.mode
          /\ view'.viewport.zoomPhase = view.viewport.zoomPhase
          /\ view'.viewport.x = view.viewport.x
          /\ view'.viewport.y = view.viewport.y
          /\ view'.selectedNodeId = view.selectedNodeId]_vars

\* Chat mode at the double 0.40000000000000013, below the threshold, with a
\* node selected and the viewport panned: plain zoom steps out led here.
C20_Witness ==
  /\ view.mode = "chat"
  /\ view.viewport.zoomPhase = "snap"
  /\ view.viewport.zoom = Double(107374182, 107374192)
  /\ view.viewport.x # 0
  /\ view.selectedNodeId # NULL

\* C21: selectNode(nodeId) with a non-null nodeId in overview mode gives
\* mode chat, zoom 1.0, zoomPhase snap, isInputVisible true and
\* selectedNodeId = nodeId, with viewport.x and viewport.y as they were; in
\* every other case only selectedNodeId changes.
C21_SelectNodeLeavesOverview ==
  \A nodeId \in {NULL} \cup ViewNodeIds :
    IF nodeId # NULL /\ view.mode = "overview"
    THEN /\ selectNode(view, nodeId).mode = "chat"
         /\ selectNode(view, nodeId).viewport.zoom = One
         /\ selectNode(view, nodeId).viewport.zoomPhase = "snap"
         /\ selectNode(view, nodeId).viewport.x = view.viewport.x
         /\ selectNode(view, nodeId).viewport.y = view.viewport.y
         /\ selectNode(view, nodeId).isInputVisible
         /\ selectNode(view, nodeId).selectedNodeId = nodeId
         /\ selectNode(view, nodeId).focusRatio = view.focusRatio
    ELSE selectNode(view, nodeId) = [view EXCEPT !.selectedNodeId = nodeId]

\* A node was selected in a panned overview: chat mode at zoom 1 with the
\* pan kept and the node selected.
C21_Witness ==
  /\ view.mode = "chat"
  /\ view.selectedNodeId # NULL
  /\ view.viewport.zoom = One
  /\ view.viewport.zoomPhase = "snap"
  /\ view.viewport.x # 0
  /\ view.viewport.y # 0
  /\ view.isInputVisible

\* C22: setViewMode(mode), from every view state, sets mode to the argument,
\* isInputVisible to (mode != overview) and zoomPhase to free for overview
\* and snap otherwise, and leaves viewport.x, viewport.y, viewport.zoom,
\* focusRatio and selectedNodeId as they were.
C22_SetViewModeEffect ==
  \A mode \in ViewModes :
    /\ setViewMode(view, mode).mode = mode
    /\ setViewMode(view, mode).isInputVisible = (mode # "overview")
    /\ setViewMode(view, mode).viewport.zoomPhase = IF mode = "overview" THEN "free" ELSE "snap"
    /\ setViewMode(view, mode).viewport.x = view.viewport.x
    /\ setViewMode(view, mode).viewport.y = view.viewport.y
    /\ setViewMode(view, mode).viewport.zoom = view.viewport.zoom
    /\ setViewMode(view, mode).focusRatio = view.focusRatio
    /\ setViewMode(view, mode).selectedNodeId = view.selectedNodeId

\* Branch mode entered by setViewMode from a state with the input hidden,
\* a node selected, the viewport panned and the zoom off 1: the input is
\* back and the rest is kept.
C22_Witness ==
  /\ view.mode = "branch"
  /\ view.isInputVisible
  /\ view.viewport.zoomPhase = "snap"
  /\ Less(view.viewport.zoom, SNAP_ZOOM_THRESHOLD)
  /\ view.viewport.x # 0
  /\ view.selectedNodeId # NULL

\* C23: resetViewport, from every reachable view state, yields the initial
\* state: mode chat, viewport {0, 0, 1, snap}, isInputVisible true,
\* selectedNodeId null and focusRatio 0.8.
C23_ResetYieldsInitialState ==
  /\ resetViewport(view) = InitialView
  /\ resetViewport(view).focusRatio = FocusRatio

\* A state that differs from the initial one in every field an action
\* writes: reset has all of them to restore.
C23_Witness ==
  /\ view.mode = "overview"
  /\ view.viewport.x # 0
  /\ view.viewport.y # 0
  /\ view.viewport.zoom # One
  /\ view.viewport.zoomPhase = "free"
  /\ ~view.isInputVisible
  /\ view.selectedNodeId # NULL

\* C24: for every text on which no strategy yields at least 2 questions,
\* detectMultipleQuestions returns hasMultipleQuestions = false,
\* questions = [] and confidence = 0, a text with a connective and nothing
\* after the last one included.
C24_NoDetectionIsEmpty ==
  ~draft.detection.hasMultipleQuestions
  => draft.detection.questions = <<>> /\ draft.detection.confidence = 0

\* Offsets at which a connecting word stands in s.
ConnectiveOffsets(s) == {j \in 0..(Len(s) - 1) : ConnectiveAt(s, j) > 0}

\* The text before the first connective and the text after the last one.
BeforeFirstConnective(s) ==
  SubSeq(s, 1, CHOOSE j \in ConnectiveOffsets(s) : \A k \in ConnectiveOffsets(s) : j <= k)

AfterLastConnective(s, j) == SubSeq(s, j + ConnectiveAt(s, j) + 1, Len(s))

\* The detection came from the connective split: strategy 3 alone reports
\* confidence 0.6 when strategies 1 and 2 found nothing.
FromConnectiveSplit(d) ==
  /\ d.detection.confidence = 6
  /\ Len(numberedMatches(d.content, 0)) < 2
  /\ Len(questionMatches(d.content, 0)) < 2

\* C25: whenever detectMultipleQuestions reports two questions from the
\* connective split, question 1 is the text before the first connective and
\* question 2 the text after the last one, both non-empty after trimming; a
\* text with only whitespace before the first connective gives no
\* multi-question result.
C25_ConnectiveSplitNonEmpty ==
  (FromConnectiveSplit(draft) /\ draft.detection.hasMultipleQuestions)
  => /\ Len(draft.detection.questions) = 2
     /\ draft.detection.questions[1] # <<>>
     /\ draft.detection.questions[2] # <<>>
     /\ draft.detection.questions[1] = trim(BeforeFirstConnective(draft.content))
     /\ draft.detection.questions[2]
          = trim(AfterLastConnective(draft.content,
                   CHOOSE j \in ConnectiveOffsets(draft.content) :
                     \A k \in ConnectiveOffsets(draft.content) : k <= j))

\* b's parent_id chain reaches a in at least one step.
RECURSIVE ChainReaches(_, _, _)
ChainReaches(table, b, a) ==
  /\ Has(table, b)
  /\ table[b].parent_id # NoUuid
  /\ \/ table[b].parent_id = a
     \/ ChainReaches(table, table[b].parent_id, a)

IsProperPrefix(p, q) == Len(p) < Len(q) /\ SubSeq(q, 1, Len(p)) = p

\* C26: with paths built by generate_message_path, for any two messages A
\* and B, A is a proper ancestor of B along the parent_id chain if and only
\* if the labels of A.path are a proper prefix of the labels of B.path, and
\* get_message_descendants(A) returns exactly the messages whose parent
\* chain reaches A.
C26_PathAncestry ==
  \A a \in DOMAIN rows :
    /\ \A b \in DOMAIN rows :
         ChainReaches(rows, b, a) <=> IsProperPrefix(rows[a].path, rows[b].path)
    /\ get_message_descendants(rows, a) = {b \in DOMAIN rows : ChainReaches(rows, b, a)}

\* A chain of three messages next to a root of its own: a grandparent, and
\* a message that is on no chain of the others.
C26_Witness ==
  \E a \in DOMAIN rows, b \in DOMAIN rows, c \in DOMAIN rows, d \in DOMAIN rows :
    /\ rows[a].parent_id = NoUuid
    /\ rows[b].parent_id = a
    /\ rows[c].parent_id = b
    /\ rows[d].parent_id = NoUuid
    /\ d # a

\* The inverse of the encoding: underscore back to hyphen.
decodeSegment(segment) == REPLACE(segment, "_", "-")

\* Texts over the UUID alphabet, up to a length.
IdChars == {"a", "1", "-"}

IdTexts == UNION {[1..n -> IdChars] : n \in 0..MaxIdLen}

\* C27: for every identifier over hex digits and hyphens, decoding the
\* encoded segment returns the identifier, and encodeSegment is injective,
\* so no two ids of the table share a path segment.
C27_SegmentRoundTrip ==
  /\ \A id \in IdTexts :
       /\ decodeSegment(encodeSegment(id)) = id
       /\ \A other \in IdTexts : encodeSegment(id) = encodeSegment(other) => id = other
  /\ \A a \in DOMAIN rows :
       /\ decodeSegment(rows[a].path[Len(rows[a].path)]) = a
       /\ \A b \in DOMAIN rows :
            rows[a].path[Len(rows[a].path)] = rows[b].path[Len(rows[b].path)] => a = b

\* Two messages whose ids differ only in where the hyphen stands, each with
\* a path.
C27_Witness ==
  /\ Has(rows, <<"a", "-", "1">>)
  /\ Has(rows, <<"a", "1", "-">>)
  /\ rows[<<"a", "1", "-">>].parent_id = <<"a", "-", "1">>

\* C28: for every provider client and for LLMManager.stream, the chunks a
\* stream yields are finitely many, and none follows a chunk with
\* done = true, whatever the provider still delivers after it.
C28_NoChunkAfterDone ==
  \A id \in DOMAIN llm.requests :
    /\ \A i \in 1..(Len(llm.requests[id].emitted) - 1) : ~llm.requests[id].emitted[i]
    /\ Len(llm.requests[id].emitted) <= MaxStreamLen

\* C29: abort() cancels every completion or stream request that was started
\* through LLMManager and has not finished, also when two requests overlap,
\* on two providers or on one.
C29_AbortCancelsAll ==
  [][Abort => \A id \in DOMAIN llm.requests : llm'.requests[id].status # "running"]_vars

\* C30: in every reachable state of a conversation tree, each node's depth
\* is its distance from the root along parentId links: 0 for a node with
\* parentId null, and parent.depth + 1 for every other node.
C30_DepthIsDistanceFromRoot ==
  \A c \in DOMAIN conversations :
    \A n \in DOMAIN conversations[c].nodes :
      IF conversations[c].nodes[n].parentId = NULL
      THEN conversations[c].nodes[n].depth = 0
      ELSE /\ Has(conversations[c].nodes, conversations[c].nodes[n].parentId)
           /\ conversations[c].nodes[n].depth
                = conversations[c].nodes[conversations[c].nodes[n].parentId].depth + 1

\* C31: get_message_ancestors(m) returns exactly the messages on the chain
\* from the root to m, m included, at pairwise different depths (so the
\* order by depth is the order of the chain), no descendant of m and no
\* message of another branch; for an unknown id it returns no rows.
C31_AncestorsAreTheChain ==
  \A m \in Uuids :
    /\ get_message_ancestors(rows, m) =
         IF Has(rows, m) THEN {m} \cup {a \in DOMAIN rows : ChainReaches(rows, m, a)}
         ELSE {}
    /\ \A a \in get_message_ancestors(rows, m), b \in get_message_ancestors(rows, m) :
         Len(rows[a].path) = Len(rows[b].path) => a = b

\* C32: after seedDatabase commits, the root message's stored path is the
\* encoding of the root message's own id, the assistant message's path is
\* the root's stored path followed by the encoded assistant id, the root's
\* path is a proper prefix of its child's path, and the ancestor and
\* descendant queries relate the two seeded messages.
C32_SeededPaths ==
  \A root \in DOMAIN rows, assistant \in DOMAIN rows :
    (rows[root].parent_id = NoUuid /\ rows[assistant].parent_id = root) =>
      /\ rows[root].path = <<encodeSegment(root)>>
      /\ rows[assistant].path = Append(rows[root].path, encodeSegment(assistant))
      /\ IsProperPrefix(rows[root].path, rows[assistant].path)
      /\ assistant \in get_message_descendants(rows, root)
      /\ root \in get_message_ancestors(rows, assistant)

\* The first step of a call that failed inside try.
FirstFailure(call) ==
  call.log[CHOOSE i \in 1..Len(call.log) :
             ~call.log[i].ok /\ \A j \in 1..(i - 1) : call.log[j].ok].step

Steps(call) == [i \in 1..Len(call.log) |-> call.log[i].step]

\* C34: once a client has been acquired it is released exactly once by the
\* time the call settles, and never more; a value is returned only if
\* BEGIN, fn and COMMIT all succeeded, in that order; if one of them fails,
\* ROLLBACK is issued before the call rejects and nothing is issued after
\* it, so no COMMIT follows a failure of fn; and the call rejects with the
\* failure of that step even when ROLLBACK itself fails.
C34_TransactionDiscipline ==
  \A c \in DOMAIN tx :
    /\ tx[c].released <= 1
    /\ tx[c].released = 1 => tx[c].acquired
    /\ (tx[c].pc = "done" /\ tx[c].acquired) => tx[c].released = 1
    /\ tx[c].outcome = "returned" =>
         tx[c].log = <<[step |-> "BEGIN", ok |-> TRUE], [step |-> "fn", ok |-> TRUE],
                       [step |-> "COMMIT", ok |-> TRUE]>>
    /\ (tx[c].outcome = "rejected" /\ tx[c].acquired) =>
         /\ Steps(tx[c])[Len(tx[c].log)] = "ROLLBACK"
         /\ Steps(tx[c]) \in {<<"BEGIN", "ROLLBACK">>, <<"BEGIN", "fn", "ROLLBACK">>,
                               <<"BEGIN", "fn", "COMMIT", "ROLLBACK">>}
         /\ ~tx[c].log[Len(tx[c].log) - 1].ok
         /\ tx[c].thrown.origin = FirstFailure(tx[c])

\* What createBranch(parentId) leaves of the tree: everything but
\* activePath.
OnlyPathChanged(before, after) ==
  /\ after.activeConversationId = before.activeConversationId
  /\ DOMAIN after.conversations = DOMAIN before.conversations
  /\ \A c \in DOMAIN before.conversations :
       /\ after.conversations[c].messages = before.conversations[c].messages
       /\ after.conversations[c].nodes = before.conversations[c].nodes
       /\ after.conversations[c].conversation = before.conversations[c].conversation
       /\ c # before.activeConversationId =>
            after.conversations[c].activePath = before.conversations[c].activePath

\* The path createBranch(p) leaves: the old path up to p when p is on it,
\* the old path with p appended otherwise.
BranchedPath(path, p) ==
  IF \E i \in 1..Len(path) : path[i] = p
  THEN SubSeq(path, 1, CHOOSE i \in 1..Len(path) : path[i] = p /\ \A j \in 1..(i - 1) : path[j] # p)
  ELSE Append(path, p)

\* insertMessage under p after createBranch(p): a new last child of p with
\* the next branchIndex, and every earlier message as it was.
SiblingAdded(before, p, result) ==
  LET old == before.conversations[before.activeConversationId]
      new == result.st.conversations[before.activeConversationId]
  IN /\ result.err = "none"
     /\ ~Has(old.messages, result.id)
     /\ new.messages[result.id].branchIndex = Len(old.nodes[p].children)
     /\ new.messages[result.id].parentId = p
     /\ new.nodes[p].children = Append(old.nodes[p].children, result.id)
     /\ \A m \in DOMAIN old.messages : new.messages[m] = old.messages[m]

\* C33: createBranch(p) for a node p of the active tree changes only
\* activePath, making p its last element and cutting everything after p
\* when p is on the path, with all messages and nodes unchanged; an
\* insertMessage with parentId = p after it creates a new child whose
\* branchIndex is the number of children p already had, appended last in
\* p.children, with the earlier siblings' content and status untouched;
\* createBranch with an id that is not a node throws and changes nothing.
C33_RetryAsNewSibling ==
  \A p \in MessageIds :
    IF p \in ActiveNodeIds
    THEN /\ createBranch(Store, p).err = "none"
         /\ OnlyPathChanged(Store, createBranch(Store, p).st)
         /\ createBranch(Store, p).st.conversations[activeConversationId].activePath =
              BranchedPath(conversations[activeConversationId].activePath, p)
         /\ \A messageData \in RetryDatas :
              messageData.parentId = p =>
                SiblingAdded(Store, p, addMessage(createBranch(Store, p).st, messageData))
    ELSE /\ createBranch(Store, p).err # "none"
         /\ createBranch(Store, p).st = Store

\* A parent that was retried: its first child failed, the path was cut back
\* to the parent and a second child was added, which is now the path's end.
C33_Witness ==
  /\ activeConversationId # NULL
  /\ \E p \in ActiveNodeIds :
       LET tree == conversations[activeConversationId]
       IN /\ Len(tree.nodes[p].children) = 2
          /\ tree.messages[tree.nodes[p].children[1]].status = "error"
          /\ tree.messages[tree.nodes[p].children[2]].branchIndex = 1
          /\ tree.activePath = <<p, tree.nodes[p].children[2]>>

\* C35: in every view state reachable by setViewMode, handleZoom, handlePan,
\* selectNode and resetViewport, mode is overview if and only if
\* viewport.zoomPhase is free.
C35_ModePhaseCoupling ==
  (view.mode = "overview") <=> (view.viewport.zoomPhase = "free")

\* Overview reached by zooming out with Ctrl held, not by setViewMode: the
\* zoom is below the snap threshold.
C35_Witness ==
  /\ view.mode = "overview"
  /\ view.viewport.zoomPhase = "free"
  /\ Less(view.viewport.zoom, SNAP_ZOOM_THRESHOLD)
  /\ view.selectedNodeId # NULL

\* C36: in every view state reachable by setViewMode, handleZoom,
\* handlePan, selectNode and resetViewport, isInputVisible is true exactly
\* when mode is not overview; and after toggleInputVisibility has set any
\* value, a handleZoom step, with or without Ctrl, leaves isInputVisible
\* true exactly when the mode it leaves is not overview.
C36_InputFollowsMode ==
  /\ view.isInputVisible = (view.mode # "overview")
  /\ \A visible \in Visibles, delta \in WheelDeltas, isCtrl \in BOOLEAN :
       LET after == handleZoom(toggleInputVisibility(view, visible), delta, isCtrl)
       IN after.isInputVisible = (after.mode # "overview")

\* Overview with the input hidden, at a zoom from which a plain zoom step
\* stays in overview and a Ctrl step back in would leave it.
C36_Witness ==
  /\ view.mode = "overview"
  /\ ~view.isInputVisible
  /\ ~Less(steppedZoom(view.viewport.zoom, -100), One)

\* C37: for every text, if the detection has hasMultipleQuestions then its
\* confidence is at least 0.5: at least 0.7 when the list strategy found
\* the questions, at least 0.6 when the question-mark strategy did, and 0.6
\* when the connective strategy did; so shouldAutoBranch equals
\* hasMultipleQuestions, and the send handler takes the auto-branch loop
\* exactly when at least two questions were detected.
C37_ThresholdNeverSuppresses ==
  LET d == draft.detection
      numbered == numberedMatches(draft.content, 0)
      marks == questionMatches(draft.content, 0)
  IN /\ d.hasMultipleQuestions =>
          /\ d.confidence >= 5
          /\ IF Len(numbered) >= 2 THEN d.confidence >= 7
             ELSE IF Len(marks) >= 2 THEN d.confidence >= 6
             ELSE d.confidence = 6
     /\ shouldAutoBranch(d) = d.hasMultipleQuestions
     /\ (shouldAutoBranch(d) /\ Len(d.questions) > 1) = (Len(d.questions) >= 2)

\* A list of two items detected as two questions, at the list strategy's
\* lowest confidence.
C37_Witness ==
  /\ draft.detection.hasMultipleQuestions
  /\ Len(numberedMatches(draft.content, 0)) = 2
  /\ draft.detection.confidence = 7

\* C38: in every state reachable by createConversation,
\* setActiveConversation, deleteConversation and the message operations,
\* activeConversationId is null or the id of a tree of the conversations
\* map, so getActiveConversation() returns null only when
\* activeConversationId is null, and that tree otherwise.
C38_ActivePointerValid ==
  /\ activeConversationId = NULL \/ Has(conversations, activeConversationId)
  /\ activeConversationId # NULL =>
       /\ Has(conversations, activeConversationId)
       /\ getActiveConversation(Store) = conversations[activeConversationId]

\* The messages of a tree that name m as their parent.
ChildrenOf(tree, m) == {k \in DOMAIN tree.messages : tree.messages[k].parentId = m}

\* C39: in a conversation whose messages are all created by the send
\* handler, single sends and auto-branch sends mixed, every assistant
\* message has a user message as parent, every user message has no parent
\* or an assistant message as parent, and every user message has exactly
\* one child, which is an assistant message.
C39_TurnAlternation ==
  \A c \in DOMAIN conversations :
    LET tree == conversations[c]
    IN \A m \in DOMAIN tree.messages :
         LET message == tree.messages[m]
         IN IF message.role = "assistant"
            THEN /\ message.parentId # NULL
                 /\ Has(tree.messages, message.parentId)
                 /\ tree.messages[message.parentId].role = "user"
            ELSE /\ message.role = "user"
                 /\ message.parentId # NULL =>
                      /\ Has(tree.messages, message.parentId)
                      /\ tree.messages[message.parentId].role = "assistant"
                 /\ Cardinality(ChildrenOf(tree, m)) = 1
                 /\ \A k \in ChildrenOf(tree, m) : tree.messages[k].role = "assistant"
                 /\ Len(tree.nodes[m].children) = 1
                 /\ tree.nodes[m].children[1] \in ChildrenOf(tree, m)

\* An auto-branch send into an empty tree and a single send after it: two
\* user messages without parent, and a user message below an assistant
\* message.
C39_Witness ==
  \E c \in DOMAIN conversations :
    LET messages == conversations[c].messages
    IN /\ \E u \in DOMAIN messages, v \in DOMAIN messages :
            /\ u # v
            /\ messages[u].role = "user" /\ messages[u].parentId = NULL
            /\ messages[v].role = "user" /\ messages[v].parentId = NULL
       /\ \E w \in DOMAIN messages :
            /\ messages[w].role = "user"
            /\ messages[w].parentId # NULL
            /\ messages[messages[w].parentId].role = "assistant"

====
